---- MODULE Spec2Model ----
(***************************************************************************)
(* @wearegenki/db: reactive PouchDB in a web worker.                       *)
(*                                                                         *)
(* Controller side (Database class): src/unnamed/part_001                  *)
(* Worker side (db.worker):          src/unnamed/part_003                  *)
(*                                                                         *)
(* The two event loops exchange JSON strings over one FIFO channel per     *)
(* direction.  The storage engine (PouchDB) and lodash's debounce are      *)
(* external collaborators and are modelled by their documented behaviour.  *)
(***************************************************************************)
EXTENDS Integers, Sequences, FiniteSets, TLC

(***************************************************************************)
(* Bounds                                                                  *)
(***************************************************************************)
MaxSeq == 3       \* cap on the number of _send() calls (sequence ids)
MaxWrites == 3    \* cap on the writes applied to one local database
MaxPosts == 3     \* cap on the register()/unregister() calls of a connection
MaxTime == 5      \* the clock stops here
Debounce == 2     \* opts.debounce, in clock units (part_001:88 defaults it to 300 ms)
WaitTimeout == 2  \* the timeout of a waitFor() call, in clock units
MaxUpserts == 2   \* cap on the number of upsert() calls

\* the Database instances constructed in the module, each with its own worker
Insts == {1, 2}
\* the instance used where one connection is enough
Main == CHOOSE inst \in Insts : \A other \in Insts : inst <= other
DocIds == {"a", "b"}

(***************************************************************************)
(* JavaScript values.  Every value is a tagged record so that objects can  *)
(* hold any of them; `undefined` is a value like the others.               *)
(***************************************************************************)
undefined == [t |-> "undefined"]
Num(n) == [t |-> "number", n |-> n]
Str(s) == [t |-> "string", s |-> s]
Arr(a) == [t |-> "array", a |-> a]
Bool(b) == [t |-> "boolean", b |-> b]
\* a document as get() returns it / as put() takes it; _rev = 0 is "no _rev"
Doc(id, rev, n) == [t |-> "doc", _id |-> id, _rev |-> rev, n |-> n]
\* the {ok, id, rev} object of a successful write
Ok(id, rev) == [t |-> "ok", id |-> id, rev |-> rev]
\* a PouchDB error object; status is an own enumerable property
Err(status) == [t |-> "error", status |-> status]
\* some defined result of a pass-through storage call (allDocs, ...)
Rows == [t |-> "rows"]

(***************************************************************************)
(* JSON.stringify drops the keys whose value is undefined; reading a key   *)
(* that is missing from the parsed object gives undefined.                 *)
(***************************************************************************)
stringify(obj) == [k \in {key \in DOMAIN obj : obj[key] # undefined} |-> obj[k]]

FieldOf(data, k) == IF k \in DOMAIN data THEN data[k] ELSE undefined

(***************************************************************************)
(* Map helpers (ES6 Map keyed by sequence id / query key)                  *)
(***************************************************************************)
\* a set that keeps the value of a key that is present
MapSet_keepsFirst(map, k, v) ==
  [x \in DOMAIN map \cup {k} |-> IF x \in DOMAIN map THEN map[x] ELSE v]

MapSet(map, k, v) == [x \in DOMAIN map \cup {k} |-> IF x = k THEN v ELSE map[x]]

\* a delete that leaves the entry in place
MapDelete_keeps(map, k) == map

MapDelete(map, k) == [x \in DOMAIN map \ {k} |-> map[x]]

EmptyMap == [x \in {} |-> 0]

VARIABLES
  sequence,     \* part_001:41  module-level counter shared by all instances
  resolves,     \* part_001:43  Map id -> resolve callback (the promise it settles)
  rejects,      \* part_001:44  Map id -> reject callback
  promise,      \* the promises returned by _send(), in call order
  ready,        \* this.ready of each instance
  isReady,      \* part_009:40  module-level resolver of the later controller: the instance whose ready it resolves
  vuex,         \* the namespaced vuex module state of each instance
  ctrlThrown,   \* the controller's handler threw 'Unknown event'
  toWorker,     \* worker.postMessage: controller -> worker, FIFO
  toCtrl,       \* self.postMessage:   worker -> controller, FIFO
  localDB,      \* the documents of each worker's local database
  writes,       \* number of writes applied to each local database
  jobs,         \* storage operations the worker has started and not finished
  workerThrown, \* the worker's handler threw
  settledBy,    \* history: the response that took effect on each promise
  answered,     \* history: the first response the worker gave to each call
  now,          \* the clock, in units of the timers' resolution
  queries,      \* part_003:44  the worker's registry, Map key -> query
  changeQ,      \* change events not yet delivered to init()'s listener
  debounced,    \* the state of debounce(handleChange, opts.debounce)
  generation,   \* history: the register()/unregister() calls processed per key
  evals,        \* history: number of handleChange() runs, tags their queries
  stalePushes,  \* history: keys that were sent a result of a registration since removed
  failures,     \* history: the evaluations that failed, and their siblings that completed later
  feed,         \* history: the change events and bursts seen by init()'s listener,
                \* and the time of the first event of the latest burst
  rounds,       \* history: the runs of the debounced handleChange and the last one's time
  posts,        \* number of register()/unregister() calls made so far
  waiters,      \* the closures of the waitFor() calls of each worker
  up,           \* the upsert() calls in progress on the controller
  opts,         \* this.opts of each Database instance
  replication   \* each worker's initial replication and continuous sync

muxVars == <<sequence, resolves, rejects, promise, settledBy>>
ctrlVars == <<ready, isReady, vuex, ctrlThrown, posts>>
chanVars == <<toWorker, toCtrl>>
dbVars == <<localDB, writes, jobs, workerThrown, answered>>
queryVars == <<queries, changeQ, debounced, generation, evals, stalePushes, failures, feed, rounds>>
waitVars == <<waiters>>
upsertVars == <<up>>
optVars == <<opts>>
syncVars == <<replication>>

vars == <<muxVars, ctrlVars, chanVars, dbVars, queryVars, waitVars, upsertVars, optVars, syncVars, now>>

\* everything the worker's handlers own / everything the controller owns
workerSide == <<dbVars, queryVars, waitVars, syncVars>>
ctrlSide == <<muxVars, ctrlVars, upsertVars, optVars>>

(***************************************************************************)
(* Promises.  resolve()/reject() on a settled promise have no effect.      *)
(* `calls` counts the invocations of the promise's two callbacks.          *)
(***************************************************************************)
NewPromise(inst, i, m, o) ==
  [inst |-> inst, id |-> i, m |-> m, o |-> o, state |-> "pending", value |-> undefined,
   calls |-> 0]

Settle(ps, p, st, v) ==
  [ps EXCEPT ![p] = IF @.state = "pending"
                    THEN [@ EXCEPT !.state = st, !.value = v, !.calls = @ + 1]
                    ELSE [@ EXCEPT !.calls = @ + 1]]

\* defer(): a promise with its resolve callback exposed
defer == [state |-> "pending", value |-> undefined, calls |-> 0]

\* this.ready.resolve(res)
resolve(d, v) ==
  IF d.state = "pending"
  THEN [state |-> "fulfilled", value |-> v, calls |-> d.calls + 1]
  ELSE [d EXCEPT !.calls = @ + 1]

(***************************************************************************)
(* The local database (external collaborator).  rev = 0: never written.    *)
(***************************************************************************)
NoDoc == [rev |-> 0, deleted |-> FALSE, n |-> 0]

Exists(db, id) == db[id].rev > 0 /\ ~db[id].deleted

\* localDB.get(id): the document, or a 404 error
dbGet(db, id) == IF Exists(db, id) THEN Doc(id, db[id].rev, db[id].n) ELSE Err(404)

\* localDB.put(doc) is accepted when doc._rev is the stored revision token
\* (no _rev for a document that does not exist), else it is a 409 conflict
putAccepted(db, doc) ==
  IF Exists(db, doc._id) THEN doc._rev = db[doc._id].rev ELSE doc._rev = 0

dbPut(db, doc) ==
  IF putAccepted(db, doc)
  THEN [db EXCEPT ![doc._id] = [rev |-> @.rev + 1, deleted |-> FALSE, n |-> doc.n]]
  ELSE db

\* localDB.remove(doc)
removeAccepted(db, doc) == Exists(db, doc._id) /\ doc._rev = db[doc._id].rev

dbRemove(db, doc) ==
  IF removeAccepted(db, doc)
  THEN [db EXCEPT ![doc._id] = [rev |-> @.rev + 1, deleted |-> TRUE, n |-> @.n]]
  ELSE db

(***************************************************************************)
(* Controller: Database._send / _post / _receive                           *)
(***************************************************************************)
postMessage(chan, inst, obj) == [chan EXCEPT ![inst] = Append(@, stringify(obj))]

\* a counter that stops advancing after the first allocation
nextSequence_stuck(seq) == IF seq = 0 THEN 1 ELSE seq

\* sequence += 1
nextSequence(seq) == seq + 1

\* a request that carries the id before the one its callbacks are stored under
request_previousId(m, i, o, call) ==
  [m |-> Str(m), i |-> Num(IF i > 1 THEN i - 1 ELSE i), o |-> o, call |-> Num(call)]

\* the object _send() serialises.  `call` is a history field: the number of
\* the _send() call that produced the request; no handler branches on it.
request(m, i, o, call) == [m |-> Str(m), i |-> Num(i), o |-> o, call |-> Num(call)]

_send(inst, m, o) ==
  /\ LET i == nextSequence(sequence)
         p == Len(promise) + 1
     IN /\ sequence' = i
        /\ promise' = Append(promise, NewPromise(inst, i, m, o))
        /\ resolves' = MapSet(resolves, i, p)
        /\ rejects' = MapSet(rejects, i, p)
        /\ toWorker' = postMessage(toWorker, inst, request(m, i, o, p))
  /\ UNCHANGED <<settledBy, toCtrl, ctrlVars, opts, workerSide, now>>

\* vuex mutations registered by _init()
commit(state, c, d) ==
  IF c = Str("db/addQuery") THEN MapSet(state, d.key, Arr(<<>>))
  ELSE IF c = Str("db/removeQuery") THEN MapDelete(state, d.key)
  ELSE IF c = Str("db/setQueryResult") THEN MapSet(state, d.key, d.data)
  ELSE state

\* a handler that swallows a message it does not recognise
throwUnknownEvent_swallowed(thrown, inst) == thrown

\* throw new Error('Unknown event:', event)
throwUnknownEvent(thrown, inst) == [thrown EXCEPT ![inst] = TRUE]

_receive(inst) ==
  /\ toCtrl[inst] # <<>>
  /\ toCtrl' = [toCtrl EXCEPT ![inst] = Tail(@)]
  /\ LET data == Head(toCtrl[inst])
         i == FieldOf(data, "i")
         res == FieldOf(data, "res")
         rej == FieldOf(data, "rej")
         c == FieldOf(data, "c")
         d == FieldOf(data, "d")
         r == FieldOf(data, "r")
     IN IF i # undefined
        THEN /\ IF res # undefined /\ i.n \in DOMAIN resolves
                THEN /\ promise' = Settle(promise, resolves[i.n], "fulfilled", res)
                     /\ settledBy' = IF promise[resolves[i.n]].state = "pending"
                                     THEN MapSet(settledBy, resolves[i.n], data)
                                     ELSE settledBy
                ELSE IF i.n \in DOMAIN rejects
                THEN /\ promise' = Settle(promise, rejects[i.n], "rejected", rej)
                     /\ settledBy' = IF promise[rejects[i.n]].state = "pending"
                                     THEN MapSet(settledBy, rejects[i.n], data)
                                     ELSE settledBy
                ELSE UNCHANGED <<promise, settledBy>>
             /\ resolves' = MapDelete(resolves, i.n)
             /\ rejects' = MapDelete(rejects, i.n)
             /\ UNCHANGED <<ready, vuex, ctrlThrown>>
        ELSE IF c # undefined
        THEN /\ vuex' = [vuex EXCEPT ![inst] = commit(@, c, d)]
             /\ UNCHANGED <<promise, settledBy, resolves, rejects, ready, ctrlThrown>>
        ELSE IF r # undefined
        THEN /\ ready' = [ready EXCEPT ![inst] = resolve(@, res)]
             /\ UNCHANGED <<promise, settledBy, resolves, rejects, vuex, ctrlThrown>>
        ELSE /\ ctrlThrown' = throwUnknownEvent(ctrlThrown, inst)
             /\ UNCHANGED <<promise, settledBy, resolves, rejects, ready, vuex>>
  /\ UNCHANGED <<sequence, toWorker, up, posts, isReady, opts, workerSide, now>>

(***************************************************************************)
(* Worker: receive() dispatches on m; every storage handler starts the     *)
(* operation and answers from its then/catch callback.                     *)
(***************************************************************************)
send(chan, inst, msg) == postMessage(chan, inst, msg)

\* nothing of the instance's traffic is under way
Quiet(inst) == toWorker[inst] = <<>> /\ toCtrl[inst] = <<>> /\ jobs[inst] = {}

\* the message at the head of the worker's queue selects method m
receives(inst, m) == toWorker[inst] # <<>> /\ FieldOf(Head(toWorker[inst]), "m") = Str(m)

\* the job a storage handler starts for the request at the head of the queue
StartJob(inst, op) ==
  LET msg == Head(toWorker[inst])
  IN /\ jobs' = [jobs EXCEPT ![inst] = @ \cup
                   {[op |-> op, i |-> FieldOf(msg, "i"), o |-> FieldOf(msg, "o"),
                     call |-> FieldOf(msg, "call")]}]
     /\ toWorker' = [toWorker EXCEPT ![inst] = Tail(@)]

\* history of the first answer given to a call
Answer(ans, j, kind, payload) ==
  IF j.call.n \in DOMAIN ans THEN ans
  ELSE MapSet(ans, j.call.n, [kind |-> kind, payload |-> payload, i |-> j.i])

\* a change event reaches init()'s listener and every live waitFor listener
EmitChange(q, inst, id, rev, deleted) ==
  [q EXCEPT ![inst] = Append(@, [id |-> id, rev |-> rev, deleted |-> deleted])]

EmitToWaiters(ws, inst, id, rev, deleted) ==
  [ws EXCEPT ![inst] =
     [w \in DOMAIN @ |->
        IF @[w].live
        THEN [@[w] EXCEPT !.feed = Append(@, [id |-> id, rev |-> rev, deleted |-> deleted])]
        ELSE @[w]]]

\* case 'get': get(i, o[0])
get(inst) ==
  /\ receives(inst, "get")
  /\ StartJob(inst, "get")
  /\ UNCHANGED <<localDB, writes, workerThrown, answered, toCtrl>>
  /\ UNCHANGED <<queryVars, waitVars, replication, ctrlSide, now>>

\* localDB.get(docId).then(doc => send({ i, res: doc })).catch(rej => send({ i, rej }))
getDone(inst) ==
  \E j \in jobs[inst] :
    /\ j.op = "get"
    /\ LET r == dbGet(localDB[inst], j.o.id)
       IN IF r.t = "doc"
          THEN /\ toCtrl' = send(toCtrl, inst, [i |-> j.i, res |-> r, call |-> j.call])
               /\ answered' = Answer(answered, j, "res", r)
          ELSE /\ toCtrl' = send(toCtrl, inst, [i |-> j.i, rej |-> r, call |-> j.call])
               /\ answered' = Answer(answered, j, "rej", r)
    /\ jobs' = [jobs EXCEPT ![inst] = @ \ {j}]
    /\ UNCHANGED <<localDB, writes, workerThrown, toWorker>>
    /\ UNCHANGED <<queryVars, waitVars, replication, ctrlSide, now>>

\* case 'put': put(i, o[0])
put(inst) ==
  /\ receives(inst, "put")
  /\ StartJob(inst, "put")
  /\ UNCHANGED <<localDB, writes, workerThrown, answered, toCtrl>>
  /\ UNCHANGED <<queryVars, waitVars, replication, ctrlSide, now>>

\* localDB.put(doc).then(res => send({ i, res })).catch(rej => send({ i, rej }))
putDone(inst) ==
  \E j \in jobs[inst] :
    /\ j.op = "put"
    /\ putAccepted(localDB[inst], j.o.doc) => writes[inst] < MaxWrites
    /\ LET doc == j.o.doc
           ok == putAccepted(localDB[inst], doc)
           db == dbPut(localDB[inst], doc)
           res == Ok(doc._id, db[doc._id].rev)
       IN IF ok
          THEN /\ localDB' = [localDB EXCEPT ![inst] = db]
               /\ writes' = [writes EXCEPT ![inst] = @ + 1]
               /\ changeQ' = EmitChange(changeQ, inst, doc._id, db[doc._id].rev, FALSE)
               /\ waiters' = EmitToWaiters(waiters, inst, doc._id, db[doc._id].rev, FALSE)
               /\ toCtrl' = send(toCtrl, inst, [i |-> j.i, res |-> res, call |-> j.call])
               /\ answered' = Answer(answered, j, "res", res)
          ELSE /\ toCtrl' = send(toCtrl, inst, [i |-> j.i, rej |-> Err(409), call |-> j.call])
               /\ answered' = Answer(answered, j, "rej", Err(409))
               /\ UNCHANGED <<localDB, writes, changeQ, waiters>>
    /\ jobs' = [jobs EXCEPT ![inst] = @ \ {j}]
    /\ UNCHANGED <<workerThrown, toWorker, queries, debounced, generation, evals, stalePushes, failures, feed, rounds, replication, ctrlSide, now>>

\* the storage engine fails a read or a write for a reason of its own
StorageError == Err(500)

\* localDB.get(docId) ... .catch(rej => send({ i, rej })) with such a failure
getError(inst) ==
  \E j \in jobs[inst] :
    /\ j.op = "get"
    /\ toCtrl' = send(toCtrl, inst, [i |-> j.i, rej |-> StorageError, call |-> j.call])
    /\ answered' = Answer(answered, j, "rej", StorageError)
    /\ jobs' = [jobs EXCEPT ![inst] = @ \ {j}]
    /\ UNCHANGED <<localDB, writes, workerThrown, toWorker>>
    /\ UNCHANGED <<queryVars, waitVars, replication, ctrlSide, now>>

\* localDB.put(doc) ... .catch(rej => send({ i, rej })) with such a failure
putError(inst) ==
  \E j \in jobs[inst] :
    /\ j.op = "put"
    /\ toCtrl' = send(toCtrl, inst, [i |-> j.i, rej |-> StorageError, call |-> j.call])
    /\ answered' = Answer(answered, j, "rej", StorageError)
    /\ jobs' = [jobs EXCEPT ![inst] = @ \ {j}]
    /\ UNCHANGED <<localDB, writes, workerThrown, toWorker>>
    /\ UNCHANGED <<queryVars, waitVars, replication, ctrlSide, now>>

\* case 'remove': remove(i, o[0])
remove(inst) ==
  /\ receives(inst, "remove")
  /\ StartJob(inst, "remove")
  /\ UNCHANGED <<localDB, writes, workerThrown, answered, toCtrl>>
  /\ UNCHANGED <<queryVars, waitVars, replication, ctrlSide, now>>

\* localDB.remove(doc).then(res => send({ i, res })).catch(rej => send({ i, rej }))
removeDone(inst) ==
  \E j \in jobs[inst] :
    /\ j.op = "remove"
    /\ removeAccepted(localDB[inst], j.o.doc) => writes[inst] < MaxWrites
    /\ LET doc == j.o.doc
           ok == removeAccepted(localDB[inst], doc)
           db == dbRemove(localDB[inst], doc)
           res == Ok(doc._id, db[doc._id].rev)
           rej == IF Exists(localDB[inst], doc._id) THEN Err(409) ELSE Err(404)
       IN IF ok
          THEN /\ localDB' = [localDB EXCEPT ![inst] = db]
               /\ writes' = [writes EXCEPT ![inst] = @ + 1]
               /\ changeQ' = EmitChange(changeQ, inst, doc._id, db[doc._id].rev, TRUE)
               /\ waiters' = EmitToWaiters(waiters, inst, doc._id, db[doc._id].rev, TRUE)
               /\ toCtrl' = send(toCtrl, inst, [i |-> j.i, res |-> res, call |-> j.call])
               /\ answered' = Answer(answered, j, "res", res)
          ELSE /\ toCtrl' = send(toCtrl, inst, [i |-> j.i, rej |-> rej, call |-> j.call])
               /\ answered' = Answer(answered, j, "rej", rej)
               /\ UNCHANGED <<localDB, writes, changeQ, waiters>>
    /\ jobs' = [jobs EXCEPT ![inst] = @ \ {j}]
    /\ UNCHANGED <<workerThrown, toWorker, queries, debounced, generation, evals, stalePushes, failures, feed, rounds, replication, ctrlSide, now>>

\* case 'all': all(i, o[0])
all(inst) ==
  /\ receives(inst, "all")
  /\ StartJob(inst, "all")
  /\ UNCHANGED <<localDB, writes, workerThrown, answered, toCtrl>>
  /\ UNCHANGED <<queryVars, waitVars, replication, ctrlSide, now>>

\* What a pass-through storage call can settle with.  The value the
\* collaborator's promise resolves with is whatever the collaborator passes
\* to then(); the worker forwards it unchecked, so "no value" is among them.
PassThroughOutcomes ==
  {[kind |-> "res", payload |-> Rows], [kind |-> "res", payload |-> undefined],
   [kind |-> "rej", payload |-> Err(500)]}

\* localDB.allDocs(opts).then(res => send({ i, res })).catch(rej => send({ i, rej }))
allDone(inst) ==
  \E j \in jobs[inst], out \in PassThroughOutcomes :
    /\ j.op = "all"
    /\ toCtrl' = IF out.kind = "res"
                 THEN send(toCtrl, inst, [i |-> j.i, res |-> out.payload, call |-> j.call])
                 ELSE send(toCtrl, inst, [i |-> j.i, rej |-> out.payload, call |-> j.call])
    /\ answered' = Answer(answered, j, out.kind, out.payload)
    /\ jobs' = [jobs EXCEPT ![inst] = @ \ {j}]
    /\ UNCHANGED <<localDB, writes, workerThrown, toWorker>>
    /\ UNCHANGED <<queryVars, waitVars, replication, ctrlSide, now>>

(***************************************************************************)
(* The state after `new Database(opts)` and the worker's init(opts): no   *)
(* remote, no initial queries, an empty local database.                    *)
(***************************************************************************)
\* the constructor's options: remote, sync and the initial queries
Options(remote, sync, qs) ==
  [remote |-> remote, sync |-> Bool(sync), queries |-> Arr(qs)]

\* no initial replication was started
NoReplication == [state |-> "none", log |-> <<>>]

\* everything but the options and the controller's outbox
Fresh ==
  /\ sequence = 0
  /\ resolves = EmptyMap
  /\ rejects = EmptyMap
  /\ promise = <<>>
  /\ settledBy = EmptyMap
  /\ ready = [inst \in Insts |-> defer]
  /\ isReady = 0
  /\ vuex = [inst \in Insts |-> EmptyMap]
  /\ ctrlThrown = [inst \in Insts |-> FALSE]
  /\ toCtrl = [inst \in Insts |-> <<>>]
  /\ localDB = [inst \in Insts |-> [id \in DocIds |-> NoDoc]]
  /\ writes = [inst \in Insts |-> 0]
  /\ jobs = [inst \in Insts |-> {}]
  /\ workerThrown = [inst \in Insts |-> FALSE]
  /\ answered = EmptyMap
  /\ now = 0
  /\ queries = [inst \in Insts |-> EmptyMap]
  /\ changeQ = [inst \in Insts |-> <<>>]
  /\ debounced = [inst \in Insts |-> [timer |-> FALSE, lastCallTime |-> 0]]
  /\ generation = [inst \in Insts |-> EmptyMap]
  /\ evals = [inst \in Insts |-> 0]
  /\ stalePushes = [inst \in Insts |-> {}]
  /\ failures = [inst \in Insts |-> [failed |-> {}, survived |-> {}]]
  /\ feed = [inst \in Insts |-> [events |-> 0, bursts |-> 0, since |-> 0]]
  /\ rounds = [inst \in Insts |-> [n |-> 0, at |-> 0]]
  /\ posts = 0
  /\ waiters = [inst \in Insts |-> <<>>]
  /\ up = <<>>
  /\ replication = [inst \in Insts |-> NoReplication]

Init ==
  /\ Fresh
  /\ opts = [inst \in Insts |-> Options(undefined, TRUE, EmptyMap)]
  /\ toWorker = [inst \in Insts |-> <<>>]

(***************************************************************************)
(* The request multiplexer: any instance issues storage requests.          *)
(***************************************************************************)
\* the documents a caller can hand to put()/remove()
ClientDocs == {Doc("a", 0, 1)}

\* get(_id) { return this._send('get', _id); }
Database_get(inst) ==
  /\ Len(promise) < MaxSeq
  /\ \E id \in {"a"} : _send(inst, "get", [t |-> "args", id |-> id])
  /\ UNCHANGED up

\* put(doc) { return this._send('put', doc); }
Database_put(inst) ==
  /\ Len(promise) < MaxSeq
  /\ \E doc \in ClientDocs : _send(inst, "put", [t |-> "args", doc |-> doc])
  /\ UNCHANGED up

\* remove(doc) { return this._send('remove', doc); }
Database_remove(inst) ==
  /\ Len(promise) < MaxSeq
  /\ \E doc \in ClientDocs : _send(inst, "remove", [t |-> "args", doc |-> doc])
  /\ UNCHANGED up

\* allDocs(docs) { return this._send('all', docs); }
Database_allDocs(inst) ==
  /\ Len(promise) < MaxSeq
  /\ _send(inst, "all", [t |-> "args"])
  /\ UNCHANGED up

Next ==
  \E inst \in Insts :
    \/ Database_get(inst)
    \/ Database_put(inst)
    \/ Database_allDocs(inst)
    \/ _receive(inst)
    \/ get(inst)
    \/ getDone(inst)
    \/ put(inst)
    \/ putDone(inst)
    \/ all(inst)
    \/ allDone(inst)

Spec == Init /\ [][Next]_vars

(***************************************************************************)
(* Properties of the request multiplexer                                   *)
(***************************************************************************)
Settled(p) == promise[p].state # "pending"

\* C1: a settled promise was settled by the response that carries the
\* sequence id allocated to its own call, that response is the worker's
\* answer to the call's own request, and the promise holds its payload.
C1_SettledByOwnResponse ==
  \A p \in DOMAIN promise :
    Settled(p) =>
      /\ p \in DOMAIN settledBy
      /\ p \in DOMAIN answered
      /\ FieldOf(settledBy[p], "i") = Num(promise[p].id)
      /\ FieldOf(settledBy[p], "call") = Num(p)
      /\ promise[p].value =
           IF promise[p].state = "fulfilled"
           THEN FieldOf(settledBy[p], "res") ELSE FieldOf(settledBy[p], "rej")
      /\ promise[p].value = answered[p].payload

\* two calls were outstanding together and the later one was settled first
C1_Witness ==
  \E p, q \in DOMAIN promise :
    /\ p < q
    /\ promise[p].inst = promise[q].inst
    /\ ~Settled(p)
    /\ Settled(q)
    /\ C1_SettledByOwnResponse

\* C2: sequence ids are allocated in strictly increasing order, so no id is
\* allocated twice, and every unsettled call owns the one pending entry
\* stored under its id.
C2_IdsNeverReused ==
  /\ \A p, q \in DOMAIN promise : p < q => promise[p].id < promise[q].id
  /\ \A p \in DOMAIN promise : promise[p].id <= sequence
  /\ DOMAIN resolves = DOMAIN rejects
  /\ \A i \in DOMAIN resolves : promise[resolves[i]].id = i /\ rejects[i] = resolves[i]
  /\ \A p \in DOMAIN promise :
       ~Settled(p) => promise[p].id \in DOMAIN resolves /\ resolves[promise[p].id] = p

\* two instances hold pending entries at the same time
C2_Witness ==
  \E p, q \in DOMAIN promise :
    /\ promise[p].inst # promise[q].inst
    /\ ~Settled(p)
    /\ ~Settled(q)
    /\ Cardinality(DOMAIN resolves) >= 2

\* C3: a call is fulfilled whenever the worker answered it from then() and
\* rejected only when the worker answered it from catch().
C3_FulfilledIffSuccess ==
  \A p \in DOMAIN promise :
    Settled(p) /\ p \in DOMAIN answered =>
      (promise[p].state = "fulfilled") = (answered[p].kind = "res")

(***************************************************************************)
(* Worker: the query engine (runQuery)                                     *)
(***************************************************************************)
\* the document ids in the order allDocs returns them
IdOrder == <<"a", "b">>

\* docId lies in the range [id, id + '\ufff0']
HasPrefix(docId, prefix) == prefix = "" \/ docId = prefix

\* the strings of the model in collation order
StringOrder == <<"", "a", "b">>

Rank(s) == CHOOSE x \in DOMAIN StringOrder : StringOrder[x] = s

\* startkey <= docId <= `${id}\ufff0`
InRange(docId, startkey, id) ==
  /\ Rank(docId) >= Rank(startkey)
  /\ HasPrefix(docId, id) \/ Rank(docId) < Rank(id)

\* allDocs({ limit, include_docs: true, startkey: start || id, endkey }):
\* the documents of the rows, in id order
ScanDocs(db, q) ==
  LET start == FieldOf(q, "start")
      limit == FieldOf(q, "limit")
      startkey == IF start # undefined /\ start.s # "" THEN start.s ELSE q.id
      ids == SelectSeq(IdOrder, LAMBDA id : Exists(db, id) /\ InRange(id, startkey, q.id))
      rows == [x \in DOMAIN ids |-> Doc(ids[x], db[ids[x]].rev, db[ids[x]].n)]
  IN IF limit = undefined \/ limit.n >= Len(rows) THEN rows ELSE SubSeq(rows, 1, limit.n)

\* the if / else-if chain on filter.when; an operator it does not list
\* matches no branch and leaves the rows unfiltered
Keeps(doc, filter) ==
  LET value == doc[filter.for.s]
      when == FieldOf(filter, "when")
  IN IF when = undefined THEN value = filter.if.n
     ELSE IF when = Str("<=") THEN value <= filter.if.n
     ELSE IF when = Str(">=") THEN value >= filter.if.n
     ELSE IF when = Str("<") THEN value < filter.if.n
     ELSE IF when = Str(">") THEN value > filter.if.n
     ELSE TRUE

\* x[sort].localeCompare(y[sort]) throws when the field is not a string
TypeError == [t |-> "TypeError"]

StringFields == {"_id"}

\* insertion after the elements that do not compare greater
RECURSIVE Insert(_, _, _)
Insert(doc, docs, sort) ==
  IF docs = <<>> THEN <<doc>>
  ELSE IF Rank(Head(docs)[sort]) <= Rank(doc[sort])
  THEN <<Head(docs)>> \o Insert(doc, Tail(docs), sort)
  ELSE <<doc>> \o docs

RECURSIVE Sorted(_, _)
Sorted(docs, sort) ==
  IF docs = <<>> THEN <<>>
  ELSE Insert(docs[Len(docs)], Sorted(SubSeq(docs, 1, Len(docs) - 1), sort), sort)

\* res.sort((x, y) => x[sort].localeCompare(y[sort])): the comparator runs
\* when there are two elements or more; equal elements keep their order
sortBy(docs, sort) ==
  IF Len(docs) < 2 THEN Arr(docs)
  ELSE IF sort \notin StringFields THEN TypeError
  ELSE Arr(Sorted(docs, sort))

\* the rows of allDocs({ include_docs: true, keys }) that hold a document
KeyRows(db, keys) ==
  LET ids == SelectSeq(keys, LAMBDA id : Exists(db, id))
  IN [x \in DOMAIN ids |-> [id |-> ids[x], doc |-> Doc(ids[x], db[ids[x]].rev, db[ids[x]].n)]]

\* a query whose limit bounds the rows returned: every row of the range is
\* scanned and filtered, and the first `limit` of the kept rows are returned
runQuery_limitsReturned(db, key, query) ==
  IF key = "docs"
  THEN [t |-> "rows", rows |-> KeyRows(db, query.a)]
  ELSE LET rows == ScanDocs(db, [k \in DOMAIN query \ {"limit"} |-> query[k]])
           filter == FieldOf(query, "filter")
           sort == FieldOf(query, "sort")
           limit == FieldOf(query, "limit")
           matched == IF filter = undefined THEN rows
                      ELSE SelectSeq(rows, LAMBDA doc : Keeps(doc, filter))
           kept == IF limit = undefined \/ limit.n >= Len(matched) THEN matched
                   ELSE SubSeq(matched, 1, limit.n)
       IN IF sort = undefined THEN Arr(kept) ELSE sortBy(kept, sort.s)

runQuery(db, key, query) ==
  IF key = "docs"
  THEN [t |-> "rows", rows |-> KeyRows(db, query.a)]
  ELSE LET rows == ScanDocs(db, query)
           filter == FieldOf(query, "filter")
           sort == FieldOf(query, "sort")
           kept == IF filter = undefined THEN rows
                   ELSE SelectSeq(rows, LAMBDA doc : Keeps(doc, filter))
       IN IF sort = undefined THEN Arr(kept) ELSE sortBy(kept, sort.s)

(***************************************************************************)
(* Worker: the change dispatcher (handleChange) and the registry           *)
(***************************************************************************)
\* the runQuery() calls handleChange(change, oneShot) pushes on its batch
Batch_firstOnly(qs, change, oneShot) ==
  IF Cardinality(DOMAIN qs) = 0 THEN {}
  ELSE IF ~oneShot
  THEN {[key |-> k, query |-> qs[k]] : k \in {CHOOSE x \in DOMAIN qs : TRUE}}
  ELSE IF change.query.t = "string" /\ change.key = change.query.s
  THEN {[key |-> "docs", query |-> Arr(<<change.query.s>>)]}
  ELSE {[key |-> change.key, query |-> change.query]}

\* a one-shot run for a doc id that looks up the whole doc aggregate
Batch_wholeAggregate(qs, change, oneShot) ==
  IF Cardinality(DOMAIN qs) = 0 THEN {}
  ELSE IF ~oneShot THEN {[key |-> k, query |-> qs[k]] : k \in DOMAIN qs}
  ELSE IF change.query.t = "string" /\ change.key = change.query.s
  THEN {[key |-> "docs", query |-> qs["docs"]]}
  ELSE {[key |-> change.key, query |-> change.query]}

Batch(qs, change, oneShot) ==
  IF Cardinality(DOMAIN qs) = 0 THEN {}
  ELSE IF ~oneShot THEN {[key |-> k, query |-> qs[k]] : k \in DOMAIN qs}
  ELSE IF change.query.t = "string" /\ change.key = change.query.s
  THEN {[key |-> "docs", query |-> Arr(<<change.query.s>>)]}
  ELSE {[key |-> change.key, query |-> change.query]}

\* batch.push(runQuery(key, query)): the scans are started and complete later.
\* `gens` and `run` are history fields: the registrations current when the
\* evaluation started, and the number of the handleChange() run.
StartBatch(js, inst, batch, gens, run) ==
  [js EXCEPT ![inst] = @ \cup
     {[op |-> "runQuery", key |-> b.key, query |-> b.query, gens |-> gens, run |-> run] :
        b \in batch}]

NoGen == [reg |-> 0, unreg |-> 0]

GenOf(gens, key) == IF key \in DOMAIN gens THEN gens[key] ELSE NoGen

\* a fan-out that pushes the rows as one event under the reserved key
PushEvents_aggregate(j, res) ==
  IF res = TypeError THEN <<>>
  ELSE <<[c |-> Str("db/setQueryResult"), d |-> [key |-> j.key, data |-> res]]>>

\* processItem: the push-events of one completed query; none when the
\* awaited runQuery() threw
PushEvents(j, res) ==
  IF res = TypeError THEN <<>>
  ELSE IF "rows" \in DOMAIN res
  THEN [x \in DOMAIN res.rows |->
          [c |-> Str("db/setQueryResult"),
           d |-> [key |-> res.rows[x].id, data |-> res.rows[x].doc]]]
  ELSE <<[c |-> Str("db/setQueryResult"),
          d |-> [key |-> j.key, data |-> res]]>>

RECURSIVE SendAll(_, _, _)
SendAll(chan, inst, msgs) ==
  IF msgs = <<>> THEN chan ELSE SendAll(send(chan, inst, Head(msgs)), inst, Tail(msgs))

\* the keys whose push-event was computed by an evaluation started under a
\* registration that has since been unregistered (its number is at most
\* `unreg`, the number of the last registration an unregister removed) while
\* the key has been registered again after that, with another query when the
\* key is a query key
StaleKeys(events, j, current, qs) ==
  {events[x].d.key : x \in {y \in DOMAIN events :
      LET key == events[y].d.key
      IN /\ GenOf(j.gens, key).reg > 0
         /\ GenOf(j.gens, key).reg <= GenOf(current, key).unreg
         /\ GenOf(current, key).reg > GenOf(current, key).unreg
         /\ j.key = "docs" \/ (j.key \in DOMAIN qs /\ qs[j.key] # j.query)}}

\* history: evaluation j failed; evaluation j completed after an evaluation
\* of its batch had failed
Failed(fs, j) == [fs EXCEPT !.failed = @ \cup {[run |-> j.run, key |-> j.key]}]

Survived(fs, j) ==
  IF \E f \in fs.failed : f.run = j.run /\ f.key # j.key
  THEN [fs EXCEPT !.survived = @ \cup {[run |-> j.run, key |-> j.key]}]
  ELSE fs

\* const { key, res } = await input; ... send(...)
runQueryDone(inst) ==
  \E j \in jobs[inst] :
    /\ j.op = "runQuery"
    /\ LET res == runQuery(localDB[inst], j.key, j.query)
           events == PushEvents(j, res)
       IN /\ toCtrl' = SendAll(toCtrl, inst, events)
          /\ stalePushes' = [stalePushes EXCEPT ![inst] =
                               @ \cup StaleKeys(events, j, generation[inst], queries[inst])]
          /\ failures' = [failures EXCEPT ![inst] =
                            IF res = TypeError THEN Failed(@, j) ELSE Survived(@, j)]
    /\ jobs' = [jobs EXCEPT ![inst] = @ \ {j}]
    /\ UNCHANGED <<localDB, writes, workerThrown, answered, toWorker>>
    /\ UNCHANGED <<queries, changeQ, debounced, generation, evals, feed, rounds>>
    /\ UNCHANGED <<waitVars, replication, ctrlSide, now>>

\* a failure that rejects the whole batch
runQueryError_abortsBatch(inst) ==
  \E j \in jobs[inst] :
    /\ j.op = "runQuery"
    /\ failures' = [failures EXCEPT ![inst] = Failed(@, j)]
    /\ jobs' = [jobs EXCEPT ![inst] = {x \in @ : x.op # "runQuery" \/ x.run # j.run}]
    /\ UNCHANGED <<localDB, writes, workerThrown, answered, chanVars>>
    /\ UNCHANGED <<queries, changeQ, debounced, generation, evals, stalePushes, feed, rounds>>
    /\ UNCHANGED <<waitVars, replication, ctrlSide, now>>

\* await localDB.allDocs(...) rejects: runQuery() rejects, and so does the
\* processItem() that awaits it; nothing is sent for the query
runQueryError(inst) ==
  \E j \in jobs[inst] :
    /\ j.op = "runQuery"
    /\ failures' = [failures EXCEPT ![inst] = Failed(@, j)]
    /\ jobs' = [jobs EXCEPT ![inst] = @ \ {j}]
    /\ UNCHANGED <<localDB, writes, workerThrown, answered, chanVars>>
    /\ UNCHANGED <<queries, changeQ, debounced, generation, evals, stalePushes, feed, rounds>>
    /\ UNCHANGED <<waitVars, replication, ctrlSide, now>>

\* send one way message (no return): _post(m, o)
_post(inst, m, o) ==
  /\ posts < MaxPosts
  /\ posts' = posts + 1
  /\ toWorker' = postMessage(toWorker, inst, [m |-> Str(m), o |-> o])
  /\ UNCHANGED <<muxVars, ready, isReady, vuex, ctrlThrown, up, toCtrl, opts, workerSide, now>>

\* the structured queries and doc ids a caller registers, and their keys
Queries == {[t |-> "query", id |-> "a"], [t |-> "query", id |-> "b"]}

QueryKeys == {"k"}

WatchedDocs == {"a"}

\* register(query, key) { return this._post('register', { q: query, k: key }); }
Database_register(inst, qs, ids) ==
  \/ \E q \in qs, k \in QueryKeys :
       _post(inst, "register", stringify([q |-> q, k |-> Str(k)]))
  \/ \E id \in ids :
       _post(inst, "register", stringify([q |-> Str(id), k |-> undefined]))

\* unregister(key, isDoc) { return this._post('unregister', { k: key, d: isDoc }); }
Database_unregister(inst, ids) ==
  \/ \E k \in QueryKeys :
       _post(inst, "unregister", stringify([k |-> Str(k), d |-> undefined]))
  \/ \E id \in ids :
       _post(inst, "unregister", stringify([k |-> Str(id), d |-> Bool(TRUE)]))

\* queries.set('docs', [...keys, key])
addDoc_replace(keys, key) == <<key>>

\* a set of ids: an id that is already held is not stored again
addDoc_unique(keys, key) ==
  IF \E x \in DOMAIN keys : keys[x] = key THEN keys ELSE Append(keys, key)

addDoc(keys, key) == Append(keys, key)

\* case 'register': register(o.q, o.k)
register(inst) ==
  /\ receives(inst, "register")
  /\ LET o == FieldOf(Head(toWorker[inst]), "o")
         query == FieldOf(o, "q")
         isDoc == query.t = "string"
         key == IF isDoc THEN query.s ELSE FieldOf(o, "k").s
         qs == queries[inst]
         newQs == IF isDoc
                  THEN IF "docs" \notin DOMAIN qs
                       THEN MapSet(qs, "docs", Arr(<<key>>))
                       ELSE MapSet(qs, "docs", Arr(addDoc(qs["docs"].a, key)))
                  ELSE MapSet(qs, key, query)
         gens == MapSet(generation[inst], key,
                        [GenOf(generation[inst], key) EXCEPT !.reg = @ + 1])
     IN /\ queries' = [queries EXCEPT ![inst] = newQs]
        /\ generation' = [generation EXCEPT ![inst] = gens]
        /\ toCtrl' = send(toCtrl, inst, [c |-> Str("db/addQuery"), d |-> [key |-> key]])
        /\ jobs' = StartBatch(jobs, inst, Batch(newQs, [key |-> key, query |-> query], TRUE),
                              gens, evals[inst] + 1)
        /\ evals' = [evals EXCEPT ![inst] = @ + 1]
  /\ toWorker' = [toWorker EXCEPT ![inst] = Tail(@)]
  /\ UNCHANGED <<localDB, writes, workerThrown, answered>>
  /\ UNCHANGED <<changeQ, debounced, stalePushes, failures, feed, rounds, waitVars, replication, ctrlSide, now>>

\* an unregister that deletes the 'docs' entry with its last id
unregister_dropsEmpty(inst) ==
  /\ receives(inst, "unregister")
  /\ LET o == FieldOf(Head(toWorker[inst]), "o")
         key == FieldOf(o, "k").s
         isDoc == FieldOf(o, "d") = Bool(TRUE)
         qs == queries[inst]
         gens == MapSet(generation[inst], key,
                        [reg |-> GenOf(generation[inst], key).reg,
                         unreg |-> GenOf(generation[inst], key).reg])
     IN IF ~isDoc
        THEN /\ queries' = [queries EXCEPT ![inst] = MapDelete(qs, key)]
             /\ toCtrl' = send(toCtrl, inst, [c |-> Str("db/removeQuery"), d |-> [key |-> key]])
             /\ generation' = [generation EXCEPT ![inst] = gens]
             /\ UNCHANGED workerThrown
        ELSE IF "docs" \in DOMAIN qs
        THEN /\ queries' = [queries EXCEPT ![inst] =
                              IF SelectSeq(qs["docs"].a, LAMBDA doc : doc # key) = <<>>
                              THEN MapDelete(qs, "docs")
                              ELSE MapSet(qs, "docs",
                                          Arr(SelectSeq(qs["docs"].a, LAMBDA doc : doc # key)))]
             /\ toCtrl' = send(toCtrl, inst, [c |-> Str("db/removeQuery"), d |-> [key |-> key]])
             /\ generation' = [generation EXCEPT ![inst] = gens]
             /\ UNCHANGED workerThrown
        ELSE \* docs is undefined: docs.filter throws a TypeError
             /\ workerThrown' = [workerThrown EXCEPT ![inst] = TRUE]
             /\ UNCHANGED <<queries, toCtrl, generation>>
  /\ toWorker' = [toWorker EXCEPT ![inst] = Tail(@)]
  /\ UNCHANGED <<localDB, writes, jobs, answered>>
  /\ UNCHANGED <<changeQ, debounced, evals, stalePushes, failures, feed, rounds, waitVars, replication, ctrlSide, now>>

\* case 'unregister': unregister(o.k, o.d)
unregister(inst) ==
  /\ receives(inst, "unregister")
  /\ LET o == FieldOf(Head(toWorker[inst]), "o")
         key == FieldOf(o, "k").s
         isDoc == FieldOf(o, "d") = Bool(TRUE)
         qs == queries[inst]
         gens == MapSet(generation[inst], key,
                        [reg |-> GenOf(generation[inst], key).reg,
                         unreg |-> GenOf(generation[inst], key).reg])
     IN IF ~isDoc
        THEN /\ queries' = [queries EXCEPT ![inst] = MapDelete(qs, key)]
             /\ toCtrl' = send(toCtrl, inst, [c |-> Str("db/removeQuery"), d |-> [key |-> key]])
             /\ generation' = [generation EXCEPT ![inst] = gens]
             /\ UNCHANGED workerThrown
        ELSE IF "docs" \in DOMAIN qs
        THEN /\ queries' = [queries EXCEPT ![inst] =
                              MapSet(qs, "docs",
                                     Arr(SelectSeq(qs["docs"].a, LAMBDA doc : doc # key)))]
             /\ toCtrl' = send(toCtrl, inst, [c |-> Str("db/removeQuery"), d |-> [key |-> key]])
             /\ generation' = [generation EXCEPT ![inst] = gens]
             /\ UNCHANGED workerThrown
        ELSE \* docs is undefined: docs.filter throws a TypeError
             /\ workerThrown' = [workerThrown EXCEPT ![inst] = TRUE]
             /\ UNCHANGED <<queries, toCtrl, generation>>
  /\ toWorker' = [toWorker EXCEPT ![inst] = Tail(@)]
  /\ UNCHANGED <<localDB, writes, jobs, answered>>
  /\ UNCHANGED <<changeQ, debounced, evals, stalePushes, failures, feed, rounds, waitVars, replication, ctrlSide, now>>

(***************************************************************************)
(* changes(opts) and compact()                                             *)
(***************************************************************************)
\* the options a caller passes to changes(); a call without an argument
\* sends o = [null]
ChangesOpts == {[live |-> Bool(TRUE)], [live |-> Bool(FALSE)], [since |-> Num(0)]}

\* changes(opts) { return this._send('changes', opts); }
\* The caller makes one call at a time.
Database_changes(inst) ==
  /\ Len(promise) < MaxSeq
  /\ Quiet(inst)
  /\ \/ \E o \in ChangesOpts : _send(inst, "changes", [t |-> "args", opts |-> stringify(o)])
     \/ _send(inst, "changes", [t |-> "args", opts |-> undefined])
  /\ UNCHANGED up

\* compact() { return this._post('compact'); }
Database_compact(inst) == Quiet(inst) /\ _post(inst, "compact", undefined)

\* if (opts.live)
wantsLive_never(o) == FALSE

wantsLive(o) == FieldOf(o, "live") = Bool(TRUE)

LiveError == Str("Can't use live option from web worker")

\* case 'changes': changes(i, o[0]); reading opts.live of null throws
changes(inst) ==
  /\ receives(inst, "changes")
  /\ LET msg == Head(toWorker[inst])
         o == FieldOf(msg, "o").opts
         j == [i |-> FieldOf(msg, "i"), call |-> FieldOf(msg, "call")]
     IN IF o = undefined
        THEN /\ workerThrown' = [workerThrown EXCEPT ![inst] = TRUE]
             /\ toWorker' = [toWorker EXCEPT ![inst] = Tail(@)]
             /\ UNCHANGED <<jobs, toCtrl, answered>>
        ELSE IF wantsLive(o)
        THEN /\ toCtrl' = send(toCtrl, inst, [i |-> j.i, rej |-> LiveError, call |-> j.call])
             /\ answered' = Answer(answered, j, "rej", LiveError)
             /\ toWorker' = [toWorker EXCEPT ![inst] = Tail(@)]
             /\ UNCHANGED <<jobs, workerThrown>>
        ELSE /\ StartJob(inst, "changes")
             /\ UNCHANGED <<toCtrl, answered, workerThrown>>
  /\ UNCHANGED <<localDB, writes>>
  /\ UNCHANGED <<queryVars, waitVars, replication, ctrlSide, now>>

\* localDB.changes(opts).then(res => send({ i, res })).catch(rej => send({ i, rej }))
changesDone(inst) ==
  \E j \in jobs[inst], out \in PassThroughOutcomes :
    /\ j.op = "changes"
    /\ toCtrl' = IF out.kind = "res"
                 THEN send(toCtrl, inst, [i |-> j.i, res |-> out.payload, call |-> j.call])
                 ELSE send(toCtrl, inst, [i |-> j.i, rej |-> out.payload, call |-> j.call])
    /\ answered' = Answer(answered, j, out.kind, out.payload)
    /\ jobs' = [jobs EXCEPT ![inst] = @ \ {j}]
    /\ UNCHANGED <<localDB, writes, workerThrown, toWorker>>
    /\ UNCHANGED <<queryVars, waitVars, replication, ctrlSide, now>>

\* case 'compact': compact(i)
compact(inst) ==
  /\ receives(inst, "compact")
  /\ StartJob(inst, "compact")
  /\ UNCHANGED <<localDB, writes, workerThrown, answered, toCtrl>>
  /\ UNCHANGED <<queryVars, waitVars, replication, ctrlSide, now>>

\* localDB.compact().then(res => send({ i, res })).catch(rej => send({ i, rej }))
compactDone(inst) ==
  \E j \in jobs[inst], out \in PassThroughOutcomes :
    /\ j.op = "compact"
    /\ toCtrl' = IF out.kind = "res"
                 THEN send(toCtrl, inst, [i |-> j.i, res |-> out.payload, call |-> j.call])
                 ELSE send(toCtrl, inst, [i |-> j.i, rej |-> out.payload, call |-> j.call])
    /\ jobs' = [jobs EXCEPT ![inst] = @ \ {j}]
    /\ UNCHANGED <<localDB, writes, workerThrown, answered, toWorker>>
    /\ UNCHANGED <<queryVars, waitVars, replication, ctrlSide, now>>

(***************************************************************************)
(* One-off queries: Database.query(spec) and the worker's dbQuery          *)
(***************************************************************************)
\* the filters and the structured queries a caller passes to query()
Filter(when, v) == [for |-> Str("n"), when |-> when, if |-> Num(v)]

Query(id, filter, sort, limit, start) ==
  [id |-> Str(id), filter |-> filter, sort |-> sort, limit |-> limit, start |-> start]

StructuredQueries ==
  {Query("", undefined, undefined, undefined, undefined),
   Query("", stringify(Filter(undefined, 1)), undefined, undefined, undefined),
   Query("", stringify(Filter(Str("="), 1)), undefined, undefined, undefined),
   Query("", stringify(Filter(Str(">="), 2)), Str("_id"), undefined, undefined),
   Query("b", undefined, Str("n"), undefined, Str("a")),
   Query("", undefined, undefined, Num(1), undefined)}

\* query({ id, filter, sort, limit, start }) {
\*   return this._send('query', { k: id, f: filter, s: sort, l: limit, b: start }); }
\* The caller makes one call at a time.
Database_queryOf(inst, qs) ==
  /\ Len(promise) < MaxSeq
  /\ Quiet(inst)
  /\ \E q \in qs :
       _send(inst, "query",
             [t |-> "args",
              spec |-> stringify([k |-> q.id, f |-> q.filter, s |-> q.sort, l |-> q.limit,
                                  b |-> q.start])])
  /\ UNCHANGED up

Database_query(inst) == Database_queryOf(inst, StructuredQueries)

\* queries with a limit next to a filter, and to a filter and a sort
LimitedQueries ==
  {Query("", stringify(Filter(undefined, 2)), undefined, Num(1), undefined),
   Query("", stringify(Filter(Str(">="), 1)), Str("_id"), Num(1), undefined),
   Query("", stringify(Filter(Str("<="), 1)), undefined, Num(2), undefined)}

\* case 'query': dbQuery(i, o[0])
dbQuery(inst) ==
  /\ receives(inst, "query")
  /\ StartJob(inst, "query")
  /\ UNCHANGED <<localDB, writes, workerThrown, answered, toCtrl>>
  /\ UNCHANGED <<queryVars, waitVars, replication, ctrlSide, now>>

\* runQuery(null, ...) is called with a key that is no registry key
NullKey == "null"

\* { id: k, filter: f, sort: s, limit: l, start: b }
QueryOf(o) ==
  [t |-> "query", id |-> FieldOf(o, "k").s, filter |-> FieldOf(o, "f"),
   sort |-> FieldOf(o, "s"), limit |-> FieldOf(o, "l"), start |-> FieldOf(o, "b")]

\* const { res } = await runQuery(...); send({ i, res }): nothing is sent when
\* runQuery throws, dbQuery has no catch.  The history keeps the documents
\* the scan read.
dbQueryDone(inst) ==
  \E j \in jobs[inst] :
    /\ j.op = "query"
    /\ LET res == runQuery(localDB[inst], NullKey, QueryOf(j.o.spec))
       IN IF res = TypeError
          THEN /\ answered' = Answer(answered, j, "none", TypeError)
               /\ UNCHANGED toCtrl
          ELSE /\ toCtrl' = send(toCtrl, inst, [i |-> j.i, res |-> res, call |-> j.call])
               /\ answered' = IF j.call.n \in DOMAIN answered THEN answered
                               ELSE MapSet(answered, j.call.n,
                                           [kind |-> "res", payload |-> res, i |-> j.i,
                                            db |-> localDB[inst]])
    /\ jobs' = [jobs EXCEPT ![inst] = @ \ {j}]
    /\ UNCHANGED <<localDB, writes, workerThrown, toWorker>>
    /\ UNCHANGED <<queryVars, waitVars, replication, ctrlSide, now>>

\* localDB.allDocs() rejects: the await in runQuery throws, and so does the
\* await in dbQuery; nothing is sent
dbQueryError(inst) ==
  \E j \in jobs[inst] :
    /\ j.op = "query"
    /\ answered' = Answer(answered, j, "none", StorageError)
    /\ jobs' = [jobs EXCEPT ![inst] = @ \ {j}]
    /\ UNCHANGED <<localDB, writes, workerThrown, chanVars>>
    /\ UNCHANGED <<queryVars, waitVars, replication, ctrlSide, now>>

(***************************************************************************)
(* Worker: init(opts), the initial replication and the continuous sync     *)
(***************************************************************************)
\* the options a caller constructs a Database with
InitialQueries == {EmptyMap, [k \in {"k"} |-> [t |-> "query", id |-> "a"]]}

OptionSet ==
  {Options(remote, sync, qs) :
     remote \in {undefined, Str("remote")}, sync \in BOOLEAN, qs \in InitialQueries}

\* the state after `new Database(opts)`: _init() has posted 'init'
Constructed ==
  /\ Fresh
  /\ opts \in [Insts -> OptionSet]
  /\ toWorker = [inst \in Insts |-> <<[m |-> Str("init"), o |-> stringify(opts[inst])]>>]

\* if (opts.remote !== undefined && opts.sync)
replicates(o) == FieldOf(o, "remote") # undefined /\ FieldOf(o, "sync") = Bool(TRUE)

\* the result object of a completed replication
Info == [t |-> "info"]

\* case 'init': init(o)
init(inst) ==
  /\ receives(inst, "init")
  /\ LET o == FieldOf(Head(toWorker[inst]), "o")
         qs == FieldOf(o, "queries").a
     IN /\ queries' = [queries EXCEPT ![inst] = qs]
        /\ replication' = [replication EXCEPT ![inst] =
                             IF replicates(o) THEN [state |-> "running", log |-> <<>>] ELSE @]
        /\ IF Cardinality(DOMAIN qs) # 0
           THEN /\ jobs' = StartBatch(jobs, inst, Batch(qs, undefined, FALSE),
                                      generation[inst], evals[inst] + 1)
                /\ evals' = [evals EXCEPT ![inst] = @ + 1]
           ELSE UNCHANGED <<jobs, evals>>
  /\ toWorker' = [toWorker EXCEPT ![inst] = Tail(@)]
  /\ UNCHANGED <<localDB, writes, workerThrown, answered, toCtrl>>
  /\ UNCHANGED <<changeQ, debounced, generation, stalePushes, failures, feed, rounds, waitVars,
                 ctrlSide, now>>

\* .on('complete', info => { send({ r: 1, res: info }); PouchDB.sync(...) }):
\* the steps of the callback in the order it takes them
onComplete_syncFirst(log) == log \o <<"sync", "send">>

onComplete(log) == log \o <<"send", "sync">>

\* the initial replication completes
replicateComplete(inst) ==
  /\ replication[inst].state = "running"
  /\ toCtrl' = send(toCtrl, inst, [r |-> Num(1), res |-> Info])
  /\ replication' = [replication EXCEPT ![inst] =
                       [state |-> "complete", log |-> onComplete(@.log)]]
  /\ UNCHANGED <<dbVars, queryVars, waitVars, toWorker, ctrlSide, now>>

\* the initial replication fails: no 'error' listener is attached to it
replicateError(inst) ==
  /\ replication[inst].state = "running"
  /\ replication' = [replication EXCEPT ![inst].state = "failed"]
  /\ UNCHANGED <<dbVars, queryVars, waitVars, chanVars, ctrlSide, now>>

(***************************************************************************)
(* Controller: upsert(_id, diff) and _tryPut(doc, diff)                    *)
(***************************************************************************)
\* doc = {}: no _id, no _rev, no n
EmptyDoc == Doc("", 0, 0)

\* the diff functions callers pass: d => ({ ...d, n: (d.n || 0) + 1 }), and
\* one that returns a falsy value
Diffs == {"increment", "falsy"}

\* and diff functions that touch the reserved fields:
\* d => ({ ...d, _id: 'x', _rev: 'y', n: (d.n || 0) + 1 }) with another id
\* and another revision, and d => ({ n: (d.n || 0) + 1 }) with neither field
TamperingDiffs == {"tamper", "strip"}

OtherId(id) == IF id = "a" THEN "b" ELSE "a"

diff(fn, doc) ==
  IF fn = "increment" THEN [doc EXCEPT !.n = @ + 1]
  ELSE IF fn = "tamper"
  THEN [doc EXCEPT !._id = OtherId(@), !._rev = @ + 1, !.n = @ + 1]
  ELSE IF fn = "strip" THEN [doc EXCEPT !._id = "", !._rev = 0, !.n = @ + 1]
  ELSE undefined

\* a put of the document as the diff function returned it
resetFields_asReturned(newDoc, _id, docRev) == newDoc

\* a put that carries no revision token
resetFields_noRev(newDoc, _id, docRev) == [newDoc EXCEPT !._id = _id, !._rev = 0]

\* newDoc._id = _id; newDoc._rev = docRev;
resetFields(newDoc, _id, docRev) == [newDoc EXCEPT !._id = _id, !._rev = docRev]

\* a revision that is forgotten as soon as it is read
revOf_none(doc) == 0

\* const docRev = doc._rev
revOf(doc) == doc._rev

\* every failure is taken for a missing document
StatusOf_notFound(err) == Num(404)

\* err.status of a rejection (undefined when the value has no status)
StatusOf(err) == IF "status" \in DOMAIN err THEN Num(err.status) ELSE undefined

Upserted(updated, rev, id) == [t |-> "upserted", updated |-> updated, rev |-> rev, id |-> id]

\* the call has returned or thrown
Returned(u) == u.pc \in {"returned", "thrown"}

\* a retry that sends the rejected document again instead of reading
upsertGet_resend(inst, u, reads) ==
  /\ _send(inst, "put", promise[up[u].p].o)
  /\ up' = [up EXCEPT ![u].pc = "put", ![u].p = Len(promise) + 1, ![u].reads = reads,
                       ![u].hist = Append(@, Len(promise) + 1)]

\* a retry that is given up without an answer to the caller
upsertGet_abandons(inst, u, reads) ==
  /\ up' = [up EXCEPT ![u].pc = "abandoned"]
  /\ UNCHANGED <<muxVars, ctrlVars, chanVars, opts, workerSide, now>>

\* doc = await this.get(_id): the call runs up to its first await.  `reads`,
\* `puts` and `hist` are history fields: the number of get and put requests
\* the call has sent, and the promises it has awaited, in order.
upsertGet(inst, u, reads) ==
  /\ _send(inst, "get", [t |-> "args", id |-> up[u].id])
  /\ up' = [up EXCEPT ![u].pc = "get", ![u].p = Len(promise) + 1, ![u].reads = reads,
                       ![u].hist = Append(@, Len(promise) + 1)]

\* upsert(_id, diff), called when the connection's earlier calls have returned
Database_upsert(inst, fns) ==
  /\ Len(up) < MaxUpserts
  /\ \A u \in DOMAIN up : Returned(up[u])
  /\ \E id \in DocIds, fn \in fns :
       /\ _send(inst, "get", [t |-> "args", id |-> id])
       /\ up' = Append(up, [inst |-> inst, id |-> id, diff |-> fn, pc |-> "get",
                            p |-> Len(promise) + 1, reads |-> 1, puts |-> 0,
                            hist |-> <<Len(promise) + 1>>, result |-> undefined])

\* upsert(_id, diff), called while earlier calls of the connection are running
Database_upsert_overlapping(inst, ids, fns) ==
  /\ Len(up) < MaxUpserts
  /\ \E id \in ids, fn \in fns :
       /\ _send(inst, "get", [t |-> "args", id |-> id])
       /\ up' = Append(up, [inst |-> inst, id |-> id, diff |-> fn, pc |-> "get",
                            p |-> Len(promise) + 1, reads |-> 1, puts |-> 0,
                            hist |-> <<Len(promise) + 1>>, result |-> undefined])

\* upsert resumes after `await this.get(_id)`
upsert(inst) ==
  \E u \in DOMAIN up :
    /\ up[u].inst = inst
    /\ up[u].pc = "get"
    /\ Settled(up[u].p)
    /\ LET got == promise[up[u].p]
           doc == IF got.state = "fulfilled" THEN got.value ELSE EmptyDoc
           docRev == revOf(doc)
           newDoc == diff(up[u].diff, doc)
       IN IF got.state = "rejected" /\ StatusOf(got.value) # Num(404)
          THEN \* if (err.status !== 404) throw err
               /\ up' = [up EXCEPT ![u].pc = "thrown", ![u].result = got.value]
               /\ UNCHANGED <<muxVars, ctrlVars, chanVars, opts, workerSide, now>>
          ELSE IF newDoc = undefined
          THEN \* return { updated: false, rev: docRev, id: _id }
               /\ up' = [up EXCEPT ![u].pc = "returned",
                                    ![u].result = Upserted(FALSE, docRev, up[u].id)]
               /\ UNCHANGED <<muxVars, ctrlVars, chanVars, opts, workerSide, now>>
          ELSE \* return this._tryPut(newDoc, diff): const res = await this.put(doc)
               /\ _send(inst, "put",
                        [t |-> "args", doc |-> resetFields(newDoc, up[u].id, docRev)])
               /\ up' = [up EXCEPT ![u].pc = "put", ![u].p = Len(promise) + 1,
                                    ![u].puts = @ + 1,
                                    ![u].hist = Append(@, Len(promise) + 1)]

\* a _tryPut that takes a conflict for a write that went through
_tryPut_ignoresConflict(inst) ==
  \E u \in DOMAIN up :
    /\ up[u].inst = inst
    /\ up[u].pc = "put"
    /\ Settled(up[u].p)
    /\ LET res == promise[up[u].p]
       IN /\ up' = [up EXCEPT ![u].pc = "returned",
                               ![u].result = Upserted(TRUE, res.o.doc._rev + 1, res.o.doc._id)]
          /\ UNCHANGED <<muxVars, ctrlVars, chanVars, opts, workerSide, now>>

\* _tryPut resumes after `await this.put(doc)`
_tryPut(inst) ==
  \E u \in DOMAIN up :
    /\ up[u].inst = inst
    /\ up[u].pc = "put"
    /\ Settled(up[u].p)
    /\ LET res == promise[up[u].p]
       IN IF res.state = "fulfilled"
          THEN \* return { updated: true, rev: res.rev, id: doc._id }
               /\ up' = [up EXCEPT ![u].pc = "returned",
                                    ![u].result = Upserted(TRUE, res.value.rev, res.o.doc._id)]
               /\ UNCHANGED <<muxVars, ctrlVars, chanVars, opts, workerSide, now>>
          ELSE IF StatusOf(res.value) # Num(409)
          THEN \* if (err.status !== 409) throw err
               /\ up' = [up EXCEPT ![u].pc = "thrown", ![u].result = res.value]
               /\ UNCHANGED <<muxVars, ctrlVars, chanVars, opts, workerSide, now>>
          ELSE \* return this.upsert(doc._id, diff)
               upsertGet(inst, u, up[u].reads + 1)

(***************************************************************************)
(* Worker: waitFor(i, docId, newOnly, timeout)                             *)
(***************************************************************************)
\* the ids an argument names: [docId] or docId.slice(0)
CloneIds(docId) == IF docId.t = "string" THEN <<docId.s>> ELSE docId.a

Named(docId) == {CloneIds(docId)[x] : x \in DOMAIN CloneIds(docId)}

\* docIds.filter(id => id !== other)
filter(docIds, other) == SelectSeq(docIds, LAMBDA id : id # other)

\* a listener that keeps receiving changes after cancel()
cancel_keepsListening(w) == w

\* listener.cancel(): no change or error is delivered to the listener again
cancel(w) == [w EXCEPT !.live = FALSE, !.feed = <<>>]

\* a timer that fires as soon as it is set
timeoutElapsed_atOnce(time, start, timeout) == time - start >= 0

\* self.setTimeout(..., timeout): the callback runs once timeout has passed
timeoutElapsed(time, start, timeout) == time - start >= timeout

\* `Can't find ${docId}, timeout`
TimeoutError(docId) == [t |-> "timeoutError", docId |-> docId]

\* history of a waiter: the kind of its first response, and for a first `res`
\* the named documents that were not in the local database when it was sent.
\* Its other history fields: matched, the changes of named documents its
\* listener was given; notFound, the ids whose direct read was a 404;
\* firedAt, the time at which its timer fired.
Responded(w, kind, db) ==
  IF w.first # "none" THEN w
  ELSE [w EXCEPT !.first = kind,
                 !.missing = IF kind = "res"
                             THEN {id \in Named(w.docId) : ~Exists(db, id)} ELSE {}]

\* a direct read that ignores the document it found
found_ignored(w, doc) == w

\* filterFun up to its test: docIds = docIds.filter(id => id !== doc._id)
found(w, doc) == [w EXCEPT !.docIds = filter(@, doc._id)]

\* waitFor(_id, newOnly, timeout = 45e3) { return this._send('waitFor', ...) }
WaitArgs == {Str("a"), Arr(<<"a", "b">>)}

\* the waitFor() calls under study: the first call of the connection
WaitCalls == {1}

Database_waitFor(inst) ==
  /\ Len(promise) + 1 \in WaitCalls
  /\ \E docId \in WaitArgs, newOnly \in BOOLEAN :
       _send(inst, "waitFor",
             [t |-> "args", ids |-> docId, newOnly |-> Bool(newOnly),
              timeout |-> Num(WaitTimeout)])
  /\ UNCHANGED up

\* case 'waitFor': waitFor(i, o[0], o[1], o[2]): the listener is attached, the
\* direct reads are started unless newOnly, and the timer is set
waitFor(inst) ==
  /\ receives(inst, "waitFor")
  /\ now + WaitTimeout <= MaxTime
  /\ LET msg == Head(toWorker[inst])
         o == FieldOf(msg, "o")
         newOnly == o.newOnly = Bool(TRUE)
     IN waiters' = [waiters EXCEPT ![inst] = Append(@,
          [i |-> FieldOf(msg, "i"), call |-> FieldOf(msg, "call"),
           docId |-> o.ids, docIds |-> CloneIds(o.ids), newOnly |-> newOnly,
           live |-> TRUE, feed |-> <<>>,
           reads |-> IF newOnly THEN {} ELSE Named(o.ids),
           start |-> now, timeout |-> o.timeout.n, fired |-> FALSE,
           firedAt |-> 0, first |-> "none", missing |-> {}, matched |-> 0,
           notFound |-> {}, errored |-> FALSE])]
  /\ toWorker' = [toWorker EXCEPT ![inst] = Tail(@)]
  /\ UNCHANGED <<dbVars, queryVars, toCtrl, replication, ctrlSide, now>>

\* send({ i, res: docId }); listener.cancel();
waitFor_res(inst, k, w) ==
  /\ toCtrl' = send(toCtrl, inst, [i |-> w.i, res |-> w.docId, call |-> w.call])
  /\ answered' = Answer(answered, w, "res", w.docId)
  /\ waiters' = [waiters EXCEPT ![inst][k] = cancel(Responded(w, "res", localDB[inst]))]

\* send({ i, rej }); listener.cancel();
waitFor_rej(inst, k, w, kind, rej) ==
  /\ toCtrl' = send(toCtrl, inst, [i |-> w.i, rej |-> rej, call |-> w.call])
  /\ answered' = Answer(answered, w, "rej", rej)
  /\ waiters' = [waiters EXCEPT ![inst][k] = cancel(Responded(w, kind, localDB[inst]))]

\* .on('change', (change) => { ... }) of the call's own listener
waitFor_change(inst) ==
  \E k \in DOMAIN waiters[inst] :
    LET w0 == waiters[inst][k]
    IN /\ w0.live
       /\ w0.feed # <<>>
       /\ LET change == Head(w0.feed)
              w == [w0 EXCEPT !.docIds = filter(@, change.id), !.feed = Tail(@),
                              !.matched = IF change.id \in Named(w0.docId)
                                          THEN @ + 1 ELSE @]
          IN IF w.docIds = <<>>
             THEN waitFor_res(inst, k, w)
             ELSE /\ waiters' = [waiters EXCEPT ![inst][k] = w]
                  /\ UNCHANGED <<toCtrl, answered>>
       /\ UNCHANGED <<localDB, writes, jobs, workerThrown, queryVars, toWorker, replication, ctrlSide, now>>

\* localDB.get(docId2).then(filterFun).catch(() => {})
waitFor_get(inst) ==
  \E k \in DOMAIN waiters[inst] :
    \E id \in waiters[inst][k].reads :
      LET w0 == [waiters[inst][k] EXCEPT !.reads = @ \ {id}]
          doc == dbGet(localDB[inst], id)
      IN /\ IF doc.t = "doc"
            THEN IF found(w0, doc).docIds = <<>>
                 THEN waitFor_res(inst, k, found(w0, doc))
                 ELSE /\ waiters' = [waiters EXCEPT ![inst][k] = found(w0, doc)]
                      /\ UNCHANGED <<toCtrl, answered>>
            ELSE /\ waiters' = [waiters EXCEPT ![inst][k] =
                                  [w0 EXCEPT !.notFound = @ \cup {id}]]
                 /\ UNCHANGED <<toCtrl, answered>>
         /\ UNCHANGED <<localDB, writes, jobs, workerThrown, queryVars, toWorker, replication, ctrlSide,
                        now>>

\* self.setTimeout(() => { send({ i, rej: ... }); listener.cancel(); }, timeout)
waitFor_timeout(inst) ==
  \E k \in DOMAIN waiters[inst] :
    LET w == waiters[inst][k]
    IN /\ ~w.fired
       /\ timeoutElapsed(now, w.start, w.timeout)
       /\ waitFor_rej(inst, k, [w EXCEPT !.fired = TRUE, !.firedAt = now], "timeout",
                      TimeoutError(w.docId))
       /\ UNCHANGED <<localDB, writes, jobs, workerThrown, queryVars, toWorker, replication, ctrlSide, now>>

\* .on('error', (err) => { send({ i, rej: err }); listener.cancel(); })
waitFor_error(inst) ==
  \E k \in DOMAIN waiters[inst] :
    LET w == waiters[inst][k]
    IN /\ w.live
       /\ ~w.errored
       /\ waitFor_rej(inst, k, [w EXCEPT !.errored = TRUE], "error", Err(500))
       /\ UNCHANGED <<localDB, writes, jobs, workerThrown, queryVars, toWorker, replication, ctrlSide, now>>

\* a timer of some waitFor call is due
WaitTimerDue(inst) ==
  \E k \in DOMAIN waiters[inst] :
    ~waiters[inst][k].fired
      /\ timeoutElapsed(now, waiters[inst][k].start, waiters[inst][k].timeout)

(***************************************************************************)
(* The change feed and debounce(handleChange, opts.debounce)               *)
(***************************************************************************)
\* a debounced call made at every instant is never held back
shouldInvoke_noWait(time, lastCallTime, wait) == time - lastCallTime >= 0

\* the trailing call is due once `wait` has passed since the last call
shouldInvoke(time, lastCallTime, wait) == time - lastCallTime >= wait

\* a debounce with { maxWait: wait }, which the worker does not ask for
TimerDue_maxWait(inst) ==
  /\ debounced[inst].timer
  /\ \/ shouldInvoke(now, debounced[inst].lastCallTime, Debounce)
     \/ now - feed[inst].since >= Debounce

TimerDue(inst) ==
  debounced[inst].timer /\ shouldInvoke(now, debounced[inst].lastCallTime, Debounce)

\* a write of another client of the local database, or of the replication,
\* is applied: the document is created, updated or deleted
storeWrite(inst, ids, deletes) ==
  \E id \in ids, deleted \in deletes :
    /\ writes[inst] < MaxWrites
    /\ deleted => Exists(localDB[inst], id)
    /\ LET rev == localDB[inst][id].rev + 1
       IN /\ localDB' = [localDB EXCEPT ![inst][id] =
                           [rev |-> rev, deleted |-> deleted, n |-> @.n]]
          /\ changeQ' = EmitChange(changeQ, inst, id, rev, deleted)
          /\ waiters' = EmitToWaiters(waiters, inst, id, rev, deleted)
    /\ writes' = [writes EXCEPT ![inst] = @ + 1]
    /\ UNCHANGED <<jobs, workerThrown, answered, queries, debounced, generation, evals,
                   stalePushes, failures, feed, rounds, chanVars, replication, ctrlSide, now>>

\* the same, for a write that carries a document body
DocBodies == {1, 2}

storeWriteDoc(inst, ids) ==
  \E id \in ids, n \in DocBodies :
    /\ writes[inst] < MaxWrites
    /\ LET rev == localDB[inst][id].rev + 1
       IN /\ localDB' = [localDB EXCEPT ![inst][id] =
                           [rev |-> rev, deleted |-> FALSE, n |-> n]]
          /\ changeQ' = EmitChange(changeQ, inst, id, rev, FALSE)
          /\ waiters' = EmitToWaiters(waiters, inst, id, rev, FALSE)
    /\ writes' = [writes EXCEPT ![inst] = @ + 1]
    /\ UNCHANGED <<jobs, workerThrown, answered, queries, debounced, generation, evals,
                   stalePushes, failures, feed, rounds, chanVars, replication, ctrlSide, now>>

\* .on('change', debounce(handleChange, opts.debounce)): the call is recorded
\* and the timer is started unless it is running
changeEvent(inst) ==
  /\ changeQ[inst] # <<>>
  /\ ~TimerDue(inst)
  /\ changeQ' = [changeQ EXCEPT ![inst] = Tail(@)]
  /\ debounced' = [debounced EXCEPT ![inst] = [timer |-> TRUE, lastCallTime |-> now]]
  /\ feed' = [feed EXCEPT ![inst] =
                [events |-> @.events + 1,
                 bursts |-> IF @.events = 0 \/ now - debounced[inst].lastCallTime >= Debounce
                            THEN @.bursts + 1 ELSE @.bursts,
                 since |-> IF @.events = 0 \/ now - debounced[inst].lastCallTime >= Debounce
                           THEN now ELSE @.since]]
  /\ UNCHANGED <<dbVars, queries, generation, evals, stalePushes, failures, rounds, waitVars, chanVars,
                 replication, ctrlSide, now>>

\* the timer of the debounced function expires: handleChange(change) runs
timerExpired(inst) ==
  /\ TimerDue(inst)
  /\ debounced' = [debounced EXCEPT ![inst].timer = FALSE]
  /\ rounds' = [rounds EXCEPT ![inst] = [n |-> @.n + 1, at |-> now]]
  /\ jobs' = StartBatch(jobs, inst, Batch(queries[inst], undefined, FALSE),
                        generation[inst], evals[inst] + 1)
  /\ evals' = [evals EXCEPT ![inst] = @ + 1]
  /\ UNCHANGED <<localDB, writes, workerThrown, answered, queries, changeQ, generation,
                 stalePushes, failures, feed, waitVars, chanVars, replication, ctrlSide, now>>

\* time passes; timers fire when they are due
Tick ==
  /\ now < MaxTime
  /\ \A inst \in Insts : ~TimerDue(inst) /\ ~WaitTimerDue(inst)
  /\ now' = now + 1
  /\ UNCHANGED <<workerSide, chanVars, ctrlSide>>

NextQuery ==
  \/ Database_register(Main, Queries, WatchedDocs)
  \/ Database_unregister(Main, WatchedDocs)
  \/ register(Main)
  \/ unregister(Main)
  \/ storeWrite(Main, {"a"}, {FALSE})
  \/ runQueryDone(Main)
  \/ _receive(Main)

SpecQuery == Init /\ [][NextQuery]_vars

(***************************************************************************)
(* The registry under register(docId) / unregister(docId, true) calls for  *)
(* several documents, next to one structured query                         *)
(***************************************************************************)
NextDocs ==
  \/ Database_register(Main, {[t |-> "query", id |-> "a"]}, DocIds)
  \/ Database_unregister(Main, DocIds)
  \/ register(Main)
  \/ unregister(Main)
  \/ runQueryDone(Main)
  \/ _receive(Main)

SpecDocs == Init /\ [][NextDocs]_vars

(***************************************************************************)
(* Reactive queries: registrations, writes of other clients, the debounced *)
(* change feed and the rounds of the dispatcher                            *)
(***************************************************************************)
\* the scope: the registrations and the writes of a run are numbered from 0
ReactivePosts == {0, 1}

ReactiveWrites == {0, 1}

NextReactive ==
  \/ (posts \in ReactivePosts /\ Database_register(Main, Queries, WatchedDocs))
  \/ register(Main)
  \/ (writes[Main] \in ReactiveWrites /\ storeWrite(Main, {"a"}, {FALSE}))
  \/ changeEvent(Main)
  \/ timerExpired(Main)
  \/ Tick
  \/ runQueryDone(Main)
  \/ _receive(Main)

SpecReactive == Init /\ [][NextReactive]_vars

(***************************************************************************)
(* Batches in which evaluations fail: the storage rejects a read, or the   *)
(* comparator of a sort throws                                             *)
(***************************************************************************)
\* a query over every document, sorted by a field that holds a number
SortedByNumber == [t |-> "query", id |-> "", sort |-> Str("n")]

NextBatch ==
  \/ (posts \in ReactivePosts /\ Database_register(Main, {SortedByNumber}, WatchedDocs))
  \/ register(Main)
  \/ (writes[Main] \in ReactiveWrites /\ storeWrite(Main, DocIds, {FALSE}))
  \/ changeEvent(Main)
  \/ timerExpired(Main)
  \/ Tick
  \/ runQueryDone(Main)
  \/ runQueryError(Main)
  \/ _receive(Main)

SpecBatch == Init /\ [][NextBatch]_vars

(***************************************************************************)
(* Doc ids that are registered and unregistered while changes arrive       *)
(***************************************************************************)
NextUnwatch ==
  \/ (posts \in ReactivePosts /\ Database_register(Main, {[t |-> "query", id |-> "a"]}, WatchedDocs))
  \/ (posts \in ReactivePosts /\ Database_unregister(Main, WatchedDocs))
  \/ register(Main)
  \/ unregister(Main)
  \/ (writes[Main] \in ReactiveWrites /\ storeWrite(Main, {"a"}, {FALSE}))
  \/ changeEvent(Main)
  \/ timerExpired(Main)
  \/ Tick
  \/ runQueryDone(Main)
  \/ _receive(Main)

SpecUnwatch == Init /\ [][NextUnwatch]_vars

(***************************************************************************)
(* The change feed and its debounce alone                                  *)
(***************************************************************************)
NextDebounce ==
  \/ storeWrite(Main, DocIds, BOOLEAN)
  \/ changeEvent(Main)
  \/ timerExpired(Main)
  \/ Tick

SpecDebounce == Init /\ [][NextDebounce]_vars

NextWait ==
  \/ Database_waitFor(Main)
  \/ waitFor(Main)
  \/ waitFor_change(Main)
  \/ waitFor_get(Main)
  \/ waitFor_timeout(Main)
  \/ waitFor_error(Main)
  \/ storeWrite(Main, DocIds, BOOLEAN)
  \/ _receive(Main)
  \/ Tick

SpecWait == Init /\ [][NextWait]_vars

NextUpsert ==
  \/ Database_upsert(Main, Diffs)
  \/ upsert(Main)
  \/ _tryPut(Main)
  \/ get(Main)
  \/ getDone(Main)
  \/ put(Main)
  \/ putDone(Main)
  \/ _receive(Main)

SpecUpsert == Init /\ [][NextUpsert]_vars

\* upsert with another writer on the same database and a storage engine
\* that can fail
NextUpsertEnv ==
  \/ Database_upsert(Main, Diffs)
  \/ upsert(Main)
  \/ _tryPut(Main)
  \/ get(Main)
  \/ getDone(Main)
  \/ getError(Main)
  \/ put(Main)
  \/ putDone(Main)
  \/ putError(Main)
  \/ storeWrite(Main, {"a"}, BOOLEAN)
  \/ _receive(Main)

SpecUpsertEnv == Init /\ [][NextUpsertEnv]_vars

\* upsert with diff functions that touch _id and _rev, next to another
\* writer on the same database
NextTamper ==
  \/ Database_upsert(Main, TamperingDiffs)
  \/ upsert(Main)
  \/ _tryPut(Main)
  \/ get(Main)
  \/ getDone(Main)
  \/ put(Main)
  \/ putDone(Main)
  \/ storeWrite(Main, {"a"}, BOOLEAN)
  \/ _receive(Main)

SpecTamper == Init /\ [][NextTamper]_vars

\* upsert calls with the incrementing diff that contend on one document,
\* with no other writer
NextContend ==
  \/ Database_upsert_overlapping(Main, {"a"}, {"increment"})
  \/ upsert(Main)
  \/ _tryPut(Main)
  \/ get(Main)
  \/ getDone(Main)
  \/ put(Main)
  \/ putDone(Main)
  \/ _receive(Main)

SpecContend == Init /\ [][NextContend]_vars

\* the same under the scheduling of the two event loops: a message that was
\* posted is handled, a storage operation that was started completes, and a
\* continuation whose promise is settled runs
SpecContendFair ==
  /\ SpecContend
  /\ WF_vars(upsert(Main)) /\ WF_vars(_tryPut(Main))
  /\ WF_vars(get(Main)) /\ WF_vars(getDone(Main))
  /\ WF_vars(put(Main)) /\ WF_vars(putDone(Main))
  /\ WF_vars(_receive(Main))

(***************************************************************************)
(* One-off queries over a database that other clients write to             *)
(***************************************************************************)
NextOneOff ==
  \/ storeWriteDoc(Main, DocIds)
  \/ Database_query(Main)
  \/ dbQuery(Main)
  \/ dbQueryDone(Main)
  \/ dbQueryError(Main)
  \/ _receive(Main)

SpecOneOff == Init /\ [][NextOneOff]_vars

(***************************************************************************)
(* One-off queries with a limit                                            *)
(***************************************************************************)
\* the caller makes two calls
LimitCalls == {0, 1}

NextLimit ==
  \/ storeWriteDoc(Main, DocIds)
  \/ (Len(promise) \in LimitCalls /\ Database_queryOf(Main, LimitedQueries))
  \/ dbQuery(Main)
  \/ dbQueryDone(Main)
  \/ _receive(Main)

SpecLimit == Init /\ [][NextLimit]_vars

(***************************************************************************)
(* The pass-through operations changes(opts) and compact()                 *)
(***************************************************************************)
NextPassThrough ==
  \/ Database_changes(Main)
  \/ Database_compact(Main)
  \/ changes(Main)
  \/ changesDone(Main)
  \/ compact(Main)
  \/ compactDone(Main)
  \/ _receive(Main)

SpecPassThrough == Init /\ [][NextPassThrough]_vars

(***************************************************************************)
(* Construction: every instance starts its worker with its own options;    *)
(* documents arrive in the local database while the replication runs.      *)
(***************************************************************************)
NextReady ==
  \E inst \in Insts :
    \/ init(inst)
    \/ replicateComplete(inst)
    \/ replicateError(inst)
    \/ runQueryDone(inst)
    \/ _receive(inst)

SpecReady == Constructed /\ [][NextReady]_vars

(***************************************************************************)
(* The later controller (Connection, part_009): its ready promise is       *)
(* resolved through the module-level variable isReady                      *)
(***************************************************************************)
\* no instance has been constructed
Unconstructed ==
  /\ Fresh
  /\ opts = [inst \in Insts |-> undefined]
  /\ toWorker = [inst \in Insts |-> <<>>]

\* this.worker = new Worker();
\* this.ready = new Promise((resolve) => { isReady = resolve; });
\* this._init();
Connection(inst) ==
  /\ opts[inst] = undefined
  /\ \E o \in OptionSet :
       /\ opts' = [opts EXCEPT ![inst] = o]
       /\ toWorker' = [toWorker EXCEPT ![inst] =
                         Append(@, [m |-> Str("init"), o |-> stringify(o)])]
  /\ ready' = [ready EXCEPT ![inst] = defer]
  /\ isReady' = inst
  /\ UNCHANGED <<muxVars, vuex, ctrlThrown, posts, up, toCtrl, workerSide, now>>

\* .on('complete', (info) => { postMessage({ r: info }); ... PouchDB.sync(...) })
init_onComplete(inst) ==
  /\ replication[inst].state = "running"
  /\ toCtrl' = [toCtrl EXCEPT ![inst] = Append(@, [r |-> Info])]
  /\ replication' = [replication EXCEPT ![inst] =
                       [state |-> "complete", log |-> onComplete(@.log)]]
  /\ UNCHANGED <<dbVars, queryVars, waitVars, toWorker, ctrlSide, now>>

\* Connection._receive(event).  The push-events that arrive here are the
\* setQueryResult events of the startup round, whose mutation is the same in
\* both controllers
Connection__receive(inst) ==
  /\ toCtrl[inst] # <<>>
  /\ toCtrl' = [toCtrl EXCEPT ![inst] = Tail(@)]
  /\ LET data == Head(toCtrl[inst])
         type == FieldOf(data, "type")
         c == FieldOf(data, "c")
         d == FieldOf(data, "d")
         s == FieldOf(data, "s")
         r == FieldOf(data, "r")
     IN IF type = Str("RPC")
        THEN UNCHANGED <<ready, vuex, ctrlThrown>>
        ELSE IF c # undefined
        THEN /\ vuex' = [vuex EXCEPT ![inst] = commit(@, c, d)]
             /\ UNCHANGED <<ready, ctrlThrown>>
        ELSE IF s # undefined
        THEN /\ vuex' = [vuex EXCEPT ![inst] = MapSet(@, "ok", s)]
             /\ UNCHANGED <<ready, ctrlThrown>>
        ELSE IF r # undefined
        THEN /\ ready' = [ready EXCEPT ![isReady] = resolve(@, r)]
             /\ UNCHANGED <<vuex, ctrlThrown>>
        ELSE /\ ctrlThrown' = throwUnknownEvent(ctrlThrown, inst)
             /\ UNCHANGED <<ready, vuex>>
  /\ UNCHANGED <<muxVars, isReady, posts, up, toWorker, opts, workerSide, now>>

NextConnection ==
  \E inst \in Insts :
    \/ Connection(inst)
    \/ init(inst)
    \/ init_onComplete(inst)
    \/ runQueryDone(inst)
    \/ Connection__receive(inst)

SpecConnection == Unconstructed /\ [][NextConnection]_vars

(***************************************************************************)
(* Every kind of message the worker sends: the readiness notification and  *)
(* the push-events of a constructed instance, the responses to changes()   *)
(* and the answer to compact()                                             *)
(***************************************************************************)
\* the scope: one instance is followed, and its calls of either kind are
\* numbered from 0
ConstructedMain ==
  /\ Constructed
  /\ \A inst \in Insts \ {Main} : opts[inst] = Options(undefined, TRUE, EmptyMap)

InboundCalls == {0, 1}

NextInbound ==
  \/ init(Main)
  \/ replicateComplete(Main)
  \/ runQueryDone(Main)
  \/ (Len(promise) \in InboundCalls /\ Database_changes(Main))
  \/ (posts \in InboundCalls /\ Database_compact(Main))
  \/ changes(Main)
  \/ changesDone(Main)
  \/ compact(Main)
  \/ compactDone(Main)
  \/ _receive(Main)

SpecInbound == ConstructedMain /\ [][NextInbound]_vars

(***************************************************************************)
(* Properties of the registry and the change dispatcher                    *)
(***************************************************************************)
\* C4: once unregister(k) and then register(q2, k) have been processed, no
\* setQueryResult push-event for k computed by an evaluation of the earlier,
\* unregistered query is sent to the state store.
C4_NoStalePushAfterReRegister == \A inst \in Insts : stalePushes[inst] = {}

\* C5: every burst of change events (each less than the debounce interval
\* after the previous one) is followed by exactly one run of handleChange,
\* which starts no earlier than one interval after the burst's last event.
C5_OneRoundPerBurst ==
  \A inst \in Insts :
    LET d == debounced[inst]
        f == feed[inst]
        r == rounds[inst]
    IN /\ r.n = f.bursts - (IF d.timer THEN 1 ELSE 0)
       /\ (r.n > 0 /\ ~d.timer) => r.at >= d.lastCallTime + Debounce
       /\ (r.n > 0 /\ d.timer) => r.at <= d.lastCallTime
       /\ d.timer => f.events > 0

\* three change events formed one burst and one round has run for them
C5_Witness ==
  /\ feed[Main].events >= 3
  /\ feed[Main].bursts = 1
  /\ rounds[Main].n = 1
  /\ ~debounced[Main].timer

(***************************************************************************)
(* Properties of waitFor                                                   *)
(***************************************************************************)
WaitCallsMade == {p \in DOMAIN promise : promise[p].m = "waitFor"}

\* the closures the worker created for call p
WaitersOf(p) ==
  {w \in {waiters[promise[p].inst][k] : k \in DOMAIN waiters[promise[p].inst]} :
     w.call = Num(p)}

\* C6: a waitFor future is fulfilled only by a response that was sent while
\* every named document existed in the local database, and its value is the
\* idOrIds argument of the call.
C6_FulfilledOnlyWhenAllExist ==
  \A p \in WaitCallsMade :
    promise[p].state = "fulfilled" =>
      /\ promise[p].value = promise[p].o.ids
      /\ \A w \in WaitersOf(p) : w.missing = {}

\* C7: the callbacks of a waitFor future are invoked at most once, and once
\* when the worker's responses have been received; a settled future holds the worker's first response for the call (fulfilled when it
\* was a res, rejected otherwise), whatever was sent after it, and by then the
\* call's listener is cancelled.
C7_ExactlyOneOutcome ==
  \A p \in WaitCallsMade :
    /\ promise[p].calls <= 1
    /\ \A w \in WaitersOf(p) :
         (w.first # "none" /\ toCtrl[promise[p].inst] = <<>>) => Settled(p)
    /\ Settled(p) =>
         /\ promise[p].calls = 1
         /\ WaitersOf(p) # {}
         /\ promise[p].value = answered[p].payload
         /\ \A w \in WaitersOf(p) :
              /\ ~w.live
              /\ w.feed = <<>>
              /\ w.first # "none"
              /\ (promise[p].state = "fulfilled") = (w.first = "res")
              /\ (promise[p].state = "rejected") = (w.first \in {"timeout", "error"})

\* a call was fulfilled, its timer fired afterwards and the late rejection
\* has been received by the controller
C7_Witness ==
  \E p \in WaitCallsMade :
    /\ promise[p].state = "fulfilled"
    /\ toCtrl[promise[p].inst] = <<>>
    /\ \E w \in WaitersOf(p) : w.first = "res" /\ w.fired

AllFound(w) == ~w.newOnly /\ w.reads = {} /\ w.notFound = {}

\* C9: without newOnly, once every direct read has found its document the res
\* response has been sent, first unless the timer or a feed error came before
\* it, with no change event needed; a direct read that ends in a 404 sends
\* nothing and leaves its id pending.
C9_FulfilledByDirectReads ==
  \A p \in WaitCallsMade :
    \A w \in WaitersOf(p) :
      /\ AllFound(w) =>
           /\ w.first # "none"
           /\ ~w.live
           /\ w.docIds = <<>>
           /\ (~w.fired /\ ~w.errored) => w.first = "res"
           /\ (w.first = "res" /\ Settled(p)) =>
                /\ promise[p].state = "fulfilled"
                /\ promise[p].value = promise[p].o.ids
      /\ (~w.newOnly /\ w.notFound # {} /\ w.matched = 0 /\ ~w.fired /\ ~w.errored) =>
           /\ w.first = "none"
           /\ w.live
           /\ w.notFound \subseteq {w.docIds[x] : x \in DOMAIN w.docIds}

\* both named documents existed, the two direct reads found them, and the
\* call was fulfilled with the array before its timeout and without any
\* change event
C9_Witness ==
  \E p \in WaitCallsMade :
    /\ promise[p].state = "fulfilled"
    /\ promise[p].value = Arr(<<"a", "b">>)
    /\ \E w \in WaitersOf(p) :
         /\ AllFound(w)
         /\ w.matched = 0
         /\ ~w.fired
         /\ now < w.start + w.timeout

(***************************************************************************)
(* Properties of upsert                                                    *)
(***************************************************************************)
\* the calls with the incrementing diff on `id` that have returned
IncrementsDone(id) ==
  {u \in DOMAIN up : up[u].pc = "returned" /\ up[u].diff = "increment" /\ up[u].id = id}

\* C10: with no other writer, sequential upsert calls never throw; a call
\* with the incrementing diff sends one get and one put, returns updated: true
\* with the revision its write created, and when k such calls on an id have
\* returned the stored document has n = k after exactly k writes.
C10_SequentialUpserts ==
  /\ \A u \in DOMAIN up :
       /\ up[u].pc # "thrown"
       /\ up[u].reads = 1
       /\ up[u].puts <= 1
       /\ (up[u].pc = "returned" /\ up[u].diff = "increment") =>
            /\ up[u].puts = 1
            /\ up[u].result =
                 Upserted(TRUE, Cardinality({v \in IncrementsDone(up[u].id) : v <= u}),
                          up[u].id)
  /\ (\A u \in DOMAIN up : Returned(up[u])) =>
       /\ \A inst \in Insts, id \in DocIds :
            /\ localDB[inst][id].n =
                 Cardinality({u \in IncrementsDone(id) : up[u].inst = inst})
            /\ localDB[inst][id].rev = localDB[inst][id].n
       /\ \A inst \in Insts :
            writes[inst] = Cardinality({u \in DOMAIN up :
                                         up[u].inst = inst /\ up[u].diff = "increment"})

\* two calls with the incrementing diff on a fresh id have returned and the
\* stored document has n = 2
C10_Witness ==
  /\ \A u \in DOMAIN up : Returned(up[u])
  /\ Cardinality(IncrementsDone("a")) = 2
  /\ localDB[Main]["a"].n = 2
  /\ \E u \in IncrementsDone("a") : up[u].result = Upserted(TRUE, 2, "a")

\* the document an attempt works on: the one its get returned, or {} on a 404
ReadDoc(g) == IF promise[g].state = "fulfilled" THEN promise[g].value ELSE EmptyDoc

\* C11: the requests of an upsert call alternate get, put, get, put, ...; a
\* further get is sent only after the previous put was rejected with 409, a
\* call never ends on a 409, and every put carries the diff applied to the
\* document read by the get just before it, with that document's revision
\* (so what it sends is derived from the fresh read, not from the rejected put).
C11_RetryFromFreshRead ==
  \A u \in DOMAIN up :
    LET h == up[u].hist
    IN /\ up[u].reads = (Len(h) + 1) \div 2
       /\ up[u].puts = Len(h) \div 2
       /\ \A x \in DOMAIN h :
            /\ x < Len(h) => h[x] < h[x + 1]
            /\ x % 2 = 1 =>
                 /\ promise[h[x]].m = "get"
                 /\ promise[h[x]].o.id = up[u].id
                 /\ x > 1 => /\ promise[h[x - 1]].state = "rejected"
                             /\ promise[h[x - 1]].value = Err(409)
            /\ x % 2 = 0 =>
                 /\ promise[h[x]].m = "put"
                 /\ promise[h[x]].o.doc =
                      resetFields(diff(up[u].diff, ReadDoc(h[x - 1])), up[u].id,
                                  ReadDoc(h[x - 1])._rev)
                 /\ (Returned(up[u]) /\ x = Len(h)) =>
                      ~(promise[h[x]].state = "rejected" /\ promise[h[x]].value = Err(409))

\* a call met two conflicts, read the document three times and then wrote it
C11_Witness ==
  \E u \in DOMAIN up :
    /\ up[u].pc = "returned"
    /\ up[u].reads = 3
    /\ up[u].puts = 3
    /\ up[u].result.updated

\* C11 as stated: the put of a new attempt never carries the revision token,
\* nor is it the document, of the put that was just rejected.
C11_NeverResendsRejected ==
  \A u \in DOMAIN up :
    \A x \in DOMAIN up[u].hist :
      (x % 2 = 0 /\ x > 2) =>
        /\ promise[up[u].hist[x]].o.doc # promise[up[u].hist[x - 2]].o.doc
        /\ promise[up[u].hist[x]].o.doc._rev # promise[up[u].hist[x - 2]].o.doc._rev

\* C12: a call whose diff returns a falsy value sends its one get and no put
\* (every put request belongs to a call with another diff), and it returns
\* updated: false with the id and the revision it read.
C12_FalsyDiffWritesNothing ==
  /\ \A u \in DOMAIN up :
       up[u].diff = "falsy" =>
         /\ up[u].puts = 0
         /\ Len(up[u].hist) = 1
         /\ promise[up[u].hist[1]].m = "get"
         /\ up[u].pc \in {"get", "returned", "thrown"}
         /\ up[u].pc = "returned" =>
              up[u].result = Upserted(FALSE, ReadDoc(up[u].hist[1])._rev, up[u].id)
  /\ \A p \in DOMAIN promise :
       promise[p].m = "put" =>
         \E u \in DOMAIN up :
           up[u].diff # "falsy" /\ \E x \in DOMAIN up[u].hist : up[u].hist[x] = p

\* a call with a falsy diff read an existing document and returned its
\* revision, and the stored document still has that revision
C12_Witness ==
  \E u \in DOMAIN up :
    /\ up[u].diff = "falsy"
    /\ up[u].pc = "returned"
    /\ up[u].result.rev > 0
    /\ up[u].result.rev = localDB[up[u].inst][up[u].id].rev
    /\ ~up[u].result.updated

\* the tolerated status of the x-th request of a call: 404 for its gets,
\* 409 for its puts
Tolerated(x) == IF x % 2 = 1 THEN Num(404) ELSE Num(409)

\* C13: a get rejected with a status other than 404, or a put rejected with
\* a status other than 409, is the last request of its call, and once the
\* call has resumed it has thrown that same error; a call throws for no other
\* reason; after a get rejected with 404 the call puts the diff of {}.
C13_OtherFailuresRejectUpsert ==
  \A u \in DOMAIN up :
    LET h == up[u].hist
        last == promise[h[Len(h)]]
    IN /\ \A x \in DOMAIN h :
            (promise[h[x]].state = "rejected"
               /\ StatusOf(promise[h[x]].value) # Tolerated(x)) =>
              /\ x = Len(h)
              /\ up[u].pc \in {"get", "put", "thrown"}
       /\ up[u].pc = "thrown" =>
            /\ last.state = "rejected"
            /\ StatusOf(last.value) # Tolerated(Len(h))
            /\ up[u].result = last.value
       /\ \A x \in DOMAIN h :
            (x % 2 = 1 /\ x < Len(h) /\ promise[h[x]].state = "rejected") =>
              /\ promise[h[x]].value = Err(404)
              /\ promise[h[x + 1]].o.doc =
                   resetFields(diff(up[u].diff, EmptyDoc), up[u].id, 0)

\* one call was rejected with the failure of its read and another with the
\* failure of its write
C13_Witness ==
  \E u, v \in DOMAIN up :
    /\ up[u].pc = "thrown"
    /\ up[v].pc = "thrown"
    /\ Len(up[u].hist) = 1
    /\ Len(up[v].hist) = 2
    /\ up[u].result = StorageError
    /\ up[v].result = StorageError

(***************************************************************************)
(* Properties of the ready signal                                          *)
(***************************************************************************)
\* the readiness notifications in flight to the controller
ReadyMessages(inst) ==
  {x \in DOMAIN toCtrl[inst] : FieldOf(toCtrl[inst][x], "r") # undefined}

\* C14: with a remote and sync enabled, ready is fulfilled once, never before
\* the initial replication completed, and the readiness notification is
\* sent before the continuous sync is started.
C14_ReadyAfterReplication ==
  \A inst \in Insts :
    LET log == replication[inst].log
    IN /\ ready[inst].calls <= 1
       /\ ready[inst].state = "fulfilled" =>
            /\ replicates(stringify(opts[inst]))
            /\ replication[inst].state = "complete"
            /\ ready[inst].value = Info
       /\ replication[inst].state # "complete" => ReadyMessages(inst) = {}
       /\ replication[inst].state = "complete" =>
            Cardinality(ReadyMessages(inst)) + ready[inst].calls = 1
       /\ \A y \in DOMAIN log :
            log[y] = "sync" => \E x \in DOMAIN log : x < y /\ log[x] = "send"

\* an instance with a remote and sync is ready after its replication
C14_Witness ==
  \E inst \in Insts :
    /\ opts[inst].remote = Str("remote")
    /\ opts[inst].sync = Bool(TRUE)
    /\ ready[inst].state = "fulfilled"
    /\ replication[inst].log = <<"send", "sync">>

\* C15: without a remote, ready is fulfilled once the worker has started
\* and nothing is in flight.
C15_ReadyWithoutRemote ==
  \A inst \in Insts :
    /\ opts[inst].remote = undefined
    /\ toWorker[inst] = <<>>
    /\ toCtrl[inst] = <<>>
    /\ jobs[inst] = {}
    => ready[inst].state = "fulfilled"

(***************************************************************************)
(* Properties of one-off queries                                           *)
(***************************************************************************)
\* the query() calls and the query object of a call
QueryCalls == {p \in DOMAIN promise : promise[p].m = "query"}

CalledQuery(p) == QueryOf(promise[p].o.spec)

\* field f of the document satisfies op against v; equality when op is "="
\* or absent
Satisfies(doc, f) ==
  f # undefined =>
    LET when == FieldOf(f, "when")
    IN IF when = Str("<=") THEN doc[f.for.s] <= f.if.n
       ELSE IF when = Str(">=") THEN doc[f.for.s] >= f.if.n
       ELSE IF when = Str("<") THEN doc[f.for.s] < f.if.n
       ELSE IF when = Str(">") THEN doc[f.for.s] > f.if.n
       ELSE doc[f.for.s] = f.if.n

\* the documents of the prefix range that satisfy the filter, in id order
Matching(db, q) ==
  LET ids == SelectSeq(IdOrder, LAMBDA id : Exists(db, id) /\ HasPrefix(id, q.id))
      docs == [x \in DOMAIN ids |-> Doc(ids[x], db[ids[x]].rev, db[ids[x]].n)]
  IN SelectSeq(docs, LAMBDA doc : Satisfies(doc, q.filter))

\* ascending by the sort field, equal elements in id order
IsOrdered(docs, sort) ==
  sort # undefined =>
    \A x, y \in DOMAIN docs :
      x < y => \/ Rank(docs[x][sort.s]) < Rank(docs[y][sort.s])
               \/ /\ docs[x][sort.s] = docs[y][sort.s]
                  /\ Rank(docs[x]._id) < Rank(docs[y]._id)

\* the queries {id, filter, sort} with a string sort field
PlainQuery(q) ==
  /\ q.limit = undefined
  /\ q.start = undefined
  /\ q.sort # undefined => q.sort.s \in StringFields

\* C16: the answer to a structured query {id, filter, sort} holds exactly the
\* documents of the prefix range whose field satisfies the operator
\* (equality for "=" or no operator), ascending by the sort field.
C16_StructuredQueryResult ==
  \A p \in QueryCalls :
    p \in DOMAIN answered /\ answered[p].kind = "res" /\ PlainQuery(CalledQuery(p)) =>
      LET docs == answered[p].payload.a
          expected == Matching(answered[p].db, CalledQuery(p))
      IN /\ {docs[x] : x \in DOMAIN docs} = {expected[x] : x \in DOMAIN expected}
         /\ Len(docs) = Len(expected)
         /\ IsOrdered(docs, CalledQuery(p).sort)

\* C20: a query() call whose storage read failed is rejected once nothing
\* is in flight.
C20_FailedQueryIsRejected ==
  \A p \in QueryCalls :
    /\ p \in DOMAIN answered
    /\ answered[p].payload = StorageError
    /\ toWorker[promise[p].inst] = <<>>
    /\ toCtrl[promise[p].inst] = <<>>
    /\ jobs[promise[p].inst] = {}
    => promise[p].state = "rejected"

(***************************************************************************)
(* Properties of the 'docs' aggregate                                      *)
(***************************************************************************)
\* the ids held in the registry's 'docs' entry
DocsHeld(inst) ==
  IF "docs" \in DOMAIN queries[inst]
  THEN {queries[inst]["docs"].a[x] : x \in DOMAIN queries[inst]["docs"].a}
  ELSE {}

\* the ids whose last processed call is a register(docId)
DocsWatched(inst) ==
  {id \in DocIds :
     GenOf(generation[inst], id).reg > GenOf(generation[inst], id).unreg}

\* the worker takes a register(docId) or an unregister(docId, true)
IsDocCall(msg) ==
  \/ FieldOf(msg, "m") = Str("register") /\ msg.o.q.t = "string"
  \/ FieldOf(msg, "m") = Str("unregister") /\ FieldOf(msg.o, "d") = Bool(TRUE)

DocCallProcessed(inst) ==
  /\ toWorker[inst] # <<>>
  /\ IsDocCall(Head(toWorker[inst]))
  /\ toWorker'[inst] = Tail(toWorker[inst])

OtherEntriesKept(inst) ==
  /\ DOMAIN queries'[inst] \ {"docs"} = DOMAIN queries[inst] \ {"docs"}
  /\ \A k \in DOMAIN queries[inst] \ {"docs"} : queries'[inst][k] = queries[inst][k]

\* C17: the 'docs' aggregate holds exactly the ids registered and not
\* unregistered afterwards, and a register(docId) or unregister(docId, true)
\* changes no other registry entry.
C17_DocsAggregate ==
  /\ [](\A inst \in Insts : DocsHeld(inst) = DocsWatched(inst))
  /\ [][\A inst \in Insts : DocCallProcessed(inst) => OtherEntriesKept(inst)]_vars

\* register('a'); register('b'); unregister('a', true) leaves exactly {'b'}
C17_Witness ==
  /\ "docs" \in DOMAIN queries[Main]
  /\ queries[Main]["docs"].a = <<"b">>
  /\ GenOf(generation[Main], "a") = [reg |-> 1, unreg |-> 1]
  /\ GenOf(generation[Main], "b") = [reg |-> 1, unreg |-> 0]

(***************************************************************************)
(* Properties of the pass-through operations                               *)
(***************************************************************************)
\* the changes(opts) calls made with an options object
ChangesCalls ==
  {p \in DOMAIN promise : promise[p].m = "changes" /\ promise[p].o.opts # undefined}

\* the caller asked for a live feed
LiveCall(p) == "live" \in DOMAIN promise[p].o.opts /\ promise[p].o.opts.live = Bool(TRUE)

PassThroughMethods ==
  {Str(m) : m \in {"get", "put", "remove", "all", "bulk", "diff", "changes", "compact"}}

\* C19: every pass-through operation is sent with a sequence id, and what
\* the worker answers is a correlated response the controller recognises.
C19_PassThroughsAreRequests ==
  \A inst \in Insts :
    /\ \A x \in DOMAIN toWorker[inst] :
         FieldOf(toWorker[inst][x], "m") \in PassThroughMethods =>
           FieldOf(toWorker[inst][x], "i") # undefined
    /\ \A j \in jobs[inst] : j.op = "compact" => j.i # undefined
    /\ ~ctrlThrown[inst]

(***************************************************************************)
(* Properties of responses without a pending entry                         *)
(***************************************************************************)
\* the controller takes a response whose id has no pending entry
StaleResponseReceived(inst) ==
  /\ toCtrl[inst] # <<>>
  /\ FieldOf(Head(toCtrl[inst]), "i") # undefined
  /\ FieldOf(Head(toCtrl[inst]), "i").n \notin DOMAIN resolves
  /\ toCtrl'[inst] = Tail(toCtrl[inst])

\* C21: a response whose id has no pending entry raises no error, settles
\* nothing and leaves the pending maps and the sequence counter as they
\* were; the callbacks of a call are invoked at most once and a settled call
\* has no pending entry.
C21_StaleResponseIsNoOp ==
  /\ [](\A q \in DOMAIN promise :
          /\ promise[q].calls <= 1
          /\ Settled(q) => promise[q].id \notin DOMAIN resolves \cup DOMAIN rejects)
  /\ [][\A inst \in Insts :
          StaleResponseReceived(inst) =>
            UNCHANGED <<promise, resolves, rejects, sequence, settledBy, ctrlThrown>>]_vars

\* a second response to a settled call has been received: the call was
\* answered first by its listener and then again by its timer
C21_Witness ==
  \E q \in DOMAIN promise :
    /\ Settled(q)
    /\ promise[q].calls = 1
    /\ promise[q].id \notin DOMAIN resolves
    /\ ~ctrlThrown[promise[q].inst]
    /\ toCtrl[promise[q].inst] = <<>>
    /\ \E k \in DOMAIN waiters[promise[q].inst] :
         LET w == waiters[promise[q].inst][k]
         IN w.call = Num(q) /\ w.first \in {"res", "error"} /\ w.fired

(***************************************************************************)
(* Properties of the push-events of the dispatcher                         *)
(***************************************************************************)
\* the messages a step appends to the worker's outbox
Emitted(inst) == SubSeq(toCtrl'[inst], Len(toCtrl[inst]) + 1, Len(toCtrl'[inst]))

\* the evaluation j of a batch completes in this step
Completes(inst, j) ==
  j \in jobs[inst] /\ j.op = "runQuery" /\ jobs'[inst] = jobs[inst] \ {j}

IsSetQueryResult(msg, key, data) ==
  msg = [c |-> Str("db/setQueryResult"), d |-> [key |-> key, data |-> data]]

RoundStarts(inst) == rounds'[inst].n = rounds[inst].n + 1

\* the evaluations a step starts
Started(inst) == jobs'[inst] \ jobs[inst]

\* C23: a steady-state round started on an empty registry starts no
\* evaluation and emits nothing; on a non-empty registry it starts, in the
\* one step, one evaluation per registered entry and no other.
C23_RoundEvaluatesEveryEntry ==
  [][\A inst \in Insts :
       RoundStarts(inst) =>
         /\ toCtrl'[inst] = toCtrl[inst]
         /\ jobs[inst] \subseteq jobs'[inst]
         /\ Cardinality(Started(inst)) = Cardinality(DOMAIN queries[inst])
         /\ \A k \in DOMAIN queries[inst] :
              \E j \in Started(inst) :
                j.op = "runQuery" /\ j.key = k /\ j.query = queries[inst][k]]_vars

\* a round has started the evaluations of two registry entries together
C23_Witness ==
  /\ rounds[Main].n > 0
  /\ \E j1, j2 \in jobs[Main] :
       /\ j1.op = "runQuery" /\ j2.op = "runQuery"
       /\ j1.run = j2.run
       /\ j1.key = "docs" /\ j2.key = "k"

(***************************************************************************)
(* C24: register(q, key)                                                   *)
(***************************************************************************)
\* the worker takes a register message off its queue
Registers(inst) ==
  /\ receives(inst, "register")
  /\ toWorker'[inst] = Tail(toWorker[inst])

\* the query and the key of the register message at the head of the queue
Registered(inst) ==
  LET o == FieldOf(Head(toWorker[inst]), "o")
      q == FieldOf(o, "q")
  IN [query |-> q, key |-> IF q.t = "string" THEN q.s ELSE FieldOf(o, "k").s]

\* C24: processing register(q, key) posts the addQuery push-event of the key
\* and nothing else, and starts exactly one evaluation, which is still
\* running after the step (so its setQueryResult events follow the addQuery
\* on the FIFO channel): the lookup of the single id for a doc id, the query
\* under its key for a structured query; no evaluation of another registry
\* entry is started
C24_RegisterAddsThenEvaluatesOne ==
  [][\A inst \in Insts : Registers(inst) =>
       LET r == Registered(inst)
       IN /\ Emitted(inst) = <<[c |-> Str("db/addQuery"), d |-> [key |-> r.key]]>>
          /\ jobs[inst] \subseteq jobs'[inst]
          /\ Cardinality(Started(inst)) = 1
          /\ \A j \in Started(inst) :
               /\ j.op = "runQuery"
               /\ IF r.query.t = "string"
                  THEN j.key = "docs" /\ j.query = Arr(<<r.key>>)
                  ELSE j.key = r.key /\ j.query = r.query]_vars

\* a doc id was registered while another id and a structured query were
\* registered: its lookup runs, the aggregate holds both ids, and the
\* addQuery of the id is on its way
C24_Witness ==
  /\ "docs" \in DOMAIN queries[Main] /\ "k" \in DOMAIN queries[Main]
  /\ queries[Main]["docs"] = Arr(<<"a", "b">>)
  /\ \E j \in jobs[Main] : j.op = "runQuery" /\ j.key = "docs" /\ j.query = Arr(<<"b">>)
  /\ \E x \in DOMAIN toCtrl[Main] :
       toCtrl[Main][x] = [c |-> Str("db/addQuery"), d |-> [key |-> "b"]]

(***************************************************************************)
(* C25: a failed evaluation and the other evaluations of its batch         *)
(***************************************************************************)
\* the evaluation j fails in this step
Fails(inst, j) ==
  failures'[inst].failed = failures[inst].failed \cup {[run |-> j.run, key |-> j.key]}

\* an evaluation of j's batch has failed
SiblingFailed(inst, j) == \E f \in failures[inst].failed : f.run = j.run /\ f.key # j.key

\* C25: a step in which an evaluation fails (the storage rejects its read, or
\* its sort throws) sends nothing and removes that evaluation alone, so the
\* others of its batch keep running; and an evaluation that completes after
\* one of its batch has failed sends the push-events of its own result
C25_FailureLeavesSiblings ==
  /\ [][\A inst \in Insts : failures'[inst].failed # failures[inst].failed =>
          /\ Emitted(inst) = <<>>
          /\ toCtrl'[inst] = toCtrl[inst]
          /\ \E j \in jobs[inst] :
               j.op = "runQuery" /\ Fails(inst, j) /\ jobs'[inst] = jobs[inst] \ {j}]_vars
  /\ [][\A inst \in Insts : \A j \in jobs[inst] :
          (Completes(inst, j) /\ SiblingFailed(inst, j)
             /\ failures'[inst].failed = failures[inst].failed) =>
            /\ Emitted(inst) = PushEvents(j, runQuery(localDB[inst], j.key, j.query))
            /\ [run |-> j.run, key |-> j.key] \in failures'[inst].survived]_vars

\* in a round over the doc lookup and the sorted query, the sort threw and
\* the lookup, completing later, still delivered its document
C25_Witness ==
  /\ \E f \in failures[Main].failed, g \in failures[Main].survived :
       f.run = g.run /\ f.key = "k" /\ g.key = "docs"
  /\ rounds[Main].n > 0
  /\ "a" \in DOMAIN vuex[Main] /\ vuex[Main]["a"] = Doc("a", 1, 0)
  /\ Exists(localDB[Main], "b")

(***************************************************************************)
(* C26: unregister(key, isDoc)                                             *)
(***************************************************************************)
\* the worker takes an unregister message off its queue
Unregisters(inst) ==
  /\ receives(inst, "unregister")
  /\ toWorker'[inst] = Tail(toWorker[inst])

\* the key and the isDoc flag of the unregister message at the head of the queue
Unregistered(inst) ==
  LET o == FieldOf(Head(toWorker[inst]), "o")
  IN [key |-> FieldOf(o, "k").s, isDoc |-> FieldOf(o, "d") = Bool(TRUE)]

\* C26: in every registry state, processing unregister(key, isDoc) removes
\* the query under key (isDoc unset) or the id from the doc aggregate (isDoc
\* set), posts exactly one removeQuery push-event for key and raises no
\* error in the worker
C26_UnregisterEmitsRemoveQuery ==
  [][\A inst \in Insts : Unregisters(inst) =>
       LET u == Unregistered(inst)
       IN /\ Emitted(inst) = <<[c |-> Str("db/removeQuery"), d |-> [key |-> u.key]]>>
          /\ workerThrown'[inst] = workerThrown[inst]
          /\ IF u.isDoc
             THEN "docs" \in DOMAIN queries[inst] =>
                    queries'[inst]["docs"] =
                      Arr(SelectSeq(queries[inst]["docs"].a, LAMBDA id : id # u.key))
             ELSE u.key \notin DOMAIN queries'[inst]]_vars

(***************************************************************************)
(* C27: register calls for the same key                                    *)
(***************************************************************************)
\* the entries of structured queries
QueryEntries(qs) == [k \in DOMAIN qs \ {"docs"} |-> qs[k]]

\* C27: processing register(q, k) leaves the registry with one entry for k,
\* which is q, whatever it held for k before, and changes no other query
\* entry; no other step changes a query entry; and a steady-state round
\* evaluates, for k, the query the registry holds for k, that is the query of
\* the register call processed last
C27_LastRegisterWins ==
  /\ [][\A inst \in Insts :
          IF Registers(inst) /\ Registered(inst).query.t # "string"
          THEN LET r == Registered(inst)
               IN /\ DOMAIN queries'[inst] = DOMAIN queries[inst] \cup {r.key}
                  /\ queries'[inst][r.key] = r.query
                  /\ \A k \in DOMAIN queries[inst] \ {r.key} :
                       queries'[inst][k] = queries[inst][k]
          ELSE QueryEntries(queries'[inst]) = QueryEntries(queries[inst])]_vars
  /\ [][\A inst \in Insts : RoundStarts(inst) =>
          \A j \in Started(inst) : j.key # "docs" =>
            /\ j.key \in DOMAIN queries[inst]
            /\ j.query = queries[inst][j.key]
            /\ \A j2 \in Started(inst) : j2.key = j.key => j2 = j]_vars

\* register(qa, 'k') and register(qb, 'k') were processed in that order and
\* their one-shot evaluations are still running when a round evaluates qb
C27_Witness ==
  LET qa == [t |-> "query", id |-> "a"]
      qb == [t |-> "query", id |-> "b"]
  IN /\ rounds[Main].n > 0
     /\ GenOf(generation[Main], "k").reg = 2
     /\ QueryEntries(queries[Main]) = [k \in {"k"} |-> qb]
     /\ \E j1, j2, j3 \in jobs[Main] :
          /\ j1.op = "runQuery" /\ j2.op = "runQuery" /\ j3.op = "runQuery"
          /\ j1.key = "k" /\ j2.key = "k" /\ j3.key = "k"
          /\ j1.query = qa /\ j2.query = qb /\ j3.query = qb
          /\ j1.run < j2.run /\ j2.run < j3.run

(***************************************************************************)
(* C28: the reserved fields of the documents upsert writes                 *)
(***************************************************************************)
\* the put requests of the upsert calls: the call, and the position of the
\* request among the promises the call has awaited
UpsertPuts ==
  UNION {{<<u, x>> : x \in {y \in DOMAIN up[u].hist : y % 2 = 0}} : u \in DOMAIN up}

\* C28: every put request is sent by an upsert call, and the document it
\* carries has the call's id as _id and, as _rev, the revision of the
\* document read by the get just before it (none after a 404), whatever the
\* diff function put in the two fields; so a document is only ever written
\* under an id some call was made for
C28_WritesCarryIdAndReadRevision ==
  /\ \A p \in DOMAIN promise :
       promise[p].m = "put" => \E ux \in UpsertPuts : up[ux[1]].hist[ux[2]] = p
  /\ \A ux \in UpsertPuts :
       LET u == ux[1]
           h == up[u].hist
           x == ux[2]
       IN /\ promise[h[x]].m = "put"
          /\ promise[h[x - 1]].m = "get"
          /\ promise[h[x]].o.doc._id = up[u].id
          /\ promise[h[x]].o.doc._rev = ReadDoc(h[x - 1])._rev
          /\ promise[h[x - 1]].state = "rejected" => promise[h[x]].o.doc._rev = 0
  /\ \A id \in DocIds \ {"a"} :
       localDB[Main][id].rev > 0 => \E u \in DOMAIN up : up[u].id = id

\* a call whose diff replaced _id and _rev read revision 2 of the document,
\* wrote under the call's id with that revision and was given revision 3,
\* and nothing was written under the id the diff had set
C28_Witness ==
  \E u \in DOMAIN up :
    /\ up[u].diff = "tamper"
    /\ up[u].id = "a"
    /\ up[u].pc = "returned"
    /\ up[u].result = Upserted(TRUE, 3, "a")
    /\ promise[up[u].hist[Len(up[u].hist)]].o.doc._rev = 2
    /\ localDB[Main]["b"].rev = 0

(***************************************************************************)
(* C29: the messages the controller's handler does not recognise           *)
(***************************************************************************)
\* the controller takes a message off its inbox
Receives(inst) == toCtrl[inst] # <<>> /\ toCtrl'[inst] = Tail(toCtrl[inst])

\* the message is a response with a sequence id, a push-event with a mutation
\* name, a readiness notification or a sync-status event
IsResponse(msg) == FieldOf(msg, "i") # undefined

IsPushEvent(msg) == FieldOf(msg, "c") # undefined

IsReadiness(msg) == FieldOf(msg, "r") # undefined

IsSyncStatus(msg) == FieldOf(msg, "s") # undefined

\* C29: the handler throws for every message it takes that is neither a
\* response with a sequence id, nor a push-event, nor a readiness
\* notification, nor a sync-status event, and it does not throw for a
\* message of one of these shapes
C29_UnknownMessagesThrow ==
  [][\A inst \in Insts : Receives(inst) =>
       LET msg == Head(toCtrl[inst])
       IN IF IsResponse(msg) \/ IsPushEvent(msg) \/ IsReadiness(msg) \/ IsSyncStatus(msg)
          THEN ctrlThrown'[inst] = ctrlThrown[inst]
          ELSE ctrlThrown'[inst]]_vars

\* the handler has resolved ready, committed a push-event and settled a
\* changes() call, and has thrown for the answer to compact(), which has no
\* sequence id
C29_Witness ==
  /\ ready[Main].state = "fulfilled"
  /\ "k" \in DOMAIN vuex[Main]
  /\ \E p \in DOMAIN promise : promise[p].m = "changes" /\ promise[p].state = "fulfilled"
  /\ ctrlThrown[Main]
  /\ toCtrl[Main] = <<>>

(***************************************************************************)
(* C30: the state-store slots once everything has come to rest             *)
(***************************************************************************)
\* no message, evaluation, change event or debounce timer is outstanding
AtRest(inst) ==
  /\ Quiet(inst)
  /\ changeQ[inst] = <<>>
  /\ ~debounced[inst].timer

\* the doc ids of the registry
RegisteredDocs(inst) ==
  IF "docs" \in DOMAIN queries[inst]
  THEN {queries[inst]["docs"].a[x] : x \in DOMAIN queries[inst]["docs"].a}
  ELSE {}

\* C30: whenever everything has come to rest (so that, with no further write
\* and no further registration, nothing changes any more), the slot of every
\* registered structured query holds that query evaluated on the stored
\* documents, and the slot of every registered doc id whose document exists
\* holds that document
C30_SlotsConvergeAtRest ==
  \A inst \in Insts : AtRest(inst) =>
    /\ \A k \in DOMAIN queries[inst] \ {"docs"} :
         /\ k \in DOMAIN vuex[inst]
         /\ vuex[inst][k] = runQuery(localDB[inst], k, queries[inst][k])
    /\ \A id \in RegisteredDocs(inst) :
         Exists(localDB[inst], id) =>
           /\ id \in DOMAIN vuex[inst]
           /\ vuex[inst][id] = Doc(id, localDB[inst][id].rev, localDB[inst][id].n)

(***************************************************************************)
(* C31: results sent after the removeQuery of their key                    *)
(***************************************************************************)
\* the key is registered: its last register was processed after its last
\* unregister
IsRegistered(inst, key) ==
  GenOf(generation[inst], key).reg > GenOf(generation[inst], key).unreg

\* C31: the worker sends a setQueryResult push-event for a key only while
\* the key is registered, so none follows the removeQuery of the key unless
\* the key has been registered again
C31_NoResultAfterRemoveQuery ==
  [][\A inst \in Insts : \A x \in DOMAIN Emitted(inst) :
       FieldOf(Emitted(inst)[x], "c") = Str("db/setQueryResult") =>
         IsRegistered(inst, Emitted(inst)[x].d.key)]_vars

(***************************************************************************)
(* C32: upsert calls that run concurrently on one id                       *)
(***************************************************************************)
\* the put requests of call u that the storage accepted
AcceptedPuts(u) ==
  {x \in DOMAIN up[u].hist :
     promise[up[u].hist[x]].m = "put" /\ up[u].hist[x] \in DOMAIN answered
       /\ answered[up[u].hist[x]].kind = "res"}

\* C32: upsert calls with the incrementing diff that interleave on one id
\* never throw; a call has at most one write accepted, and none after it
\* returned; a call that returned has exactly one and reports updated: true;
\* the stored n is the number of writes accepted so far, so once N calls
\* have returned the document has n = N
C32_NoLostUpdate ==
  /\ \A u \in DOMAIN up :
       /\ up[u].pc # "thrown"
       /\ Cardinality(AcceptedPuts(u)) <= 1
       /\ up[u].pc = "returned" =>
            /\ Cardinality(AcceptedPuts(u)) = 1
            /\ up[u].result.t = "upserted"
            /\ up[u].result.updated
            /\ up[u].result.id = "a"
  /\ localDB[Main]["a"].n =
       Cardinality({u \in DOMAIN up : AcceptedPuts(u) # {}})
  /\ (\A u \in DOMAIN up : up[u].pc = "returned") => localDB[Main]["a"].n = Len(up)

\* two calls read the missing document together, one of them met a conflict
\* and read again, and both have returned with the document at n = 2
C32_Witness ==
  /\ Len(up) = 2
  /\ \A u \in DOMAIN up : up[u].pc = "returned"
  /\ \E u \in DOMAIN up : up[u].reads = 2 /\ promise[up[u].hist[1]].state = "rejected"
  /\ localDB[Main]["a"].n = 2

(***************************************************************************)
(* C33: progress of contending upsert calls                                *)
(***************************************************************************)
\* the put requests of call u that the storage rejected with a conflict
ConflictingPuts(u) ==
  {x \in DOMAIN up[u].hist :
     promise[up[u].hist[x]].m = "put" /\ up[u].hist[x] \in DOMAIN answered
       /\ answered[up[u].hist[x]].kind = "rej"
       /\ answered[up[u].hist[x]].payload = Err(409)}

\* the revision a put request of call u was computed from
BaseRev(u, x) == promise[up[u].hist[x]].o.doc._rev

C34_OneResponsePerRequest ==
  [][\A inst \in Insts : \A x \in DOMAIN Emitted(inst) :
       FieldOf(Emitted(inst)[x], "i") # undefined =>
         FieldOf(Emitted(inst)[x], "call").n \notin DOMAIN answered]_vars

(***************************************************************************)
(* C35: the ready signals of two instances of the later controller         *)
(***************************************************************************)
\* the readiness notification of the instance's worker has been handled
Notified(inst) ==
  /\ replication[inst].state = "complete"
  /\ \A x \in DOMAIN toCtrl[inst] : FieldOf(toCtrl[inst][x], "r") = undefined

\* C35: an instance's ready is fulfilled only once the notification of its
\* own worker has been handled, and it is fulfilled once it has been,
\* however many instances were constructed
C35_ReadyPerInstance ==
  \A inst \in Insts :
    /\ ready[inst].state = "fulfilled" => Notified(inst)
    /\ (opts[inst] # undefined /\ Notified(inst)) => ready[inst].state = "fulfilled"

(***************************************************************************)
(* The debounce under a long burst of changes                              *)
(***************************************************************************)
\* C36: the debounce has no maximum wait: a round of the dispatcher starts
\* only when a whole interval has passed since the latest change event,
\* however long the burst of events has lasted, so no round runs during a
\* burst; when the events pause, one round runs for the burst.
C36_NoMaximumWait ==
  [][\A inst \in Insts :
       /\ rounds'[inst].n # rounds[inst].n =>
            /\ rounds'[inst].n = rounds[inst].n + 1
            /\ now - debounced[inst].lastCallTime >= Debounce
            /\ rounds'[inst].n = feed[inst].bursts
       /\ (debounced'[inst].timer /\ feed'[inst].bursts = feed[inst].bursts) =>
            rounds'[inst].n = rounds[inst].n]_vars

\* a burst lasted a whole interval without a round, and one round ran for it
\* after the events had paused
C36_Witness ==
  /\ feed[Main].bursts = 1
  /\ debounced[Main].lastCallTime - feed[Main].since >= Debounce
  /\ rounds[Main].n = 1
  /\ rounds[Main].at >= debounced[Main].lastCallTime + Debounce
  /\ ~debounced[Main].timer

(***************************************************************************)
(* C37: the addQuery of a key and the results sent for it                  *)
(***************************************************************************)
\* the worker has sent an addQuery push-event for the key: register() sends
\* one each time it runs, and nothing else does
AddQuerySent(inst, key) == GenOf(generation[inst], key).reg > 0

\* C37: the worker sends a setQueryResult push-event for a key only after it
\* has sent an addQuery push-event for that key, also when the key was
\* registered through the `queries` option and evaluated by the startup round
C37_AddQueryBeforeResult ==
  [][\A inst \in Insts : \A x \in DOMAIN Emitted(inst) :
       FieldOf(Emitted(inst)[x], "c") = Str("db/setQueryResult") =>
         AddQuerySent(inst, Emitted(inst)[x].d.key)]_vars

(***************************************************************************)
(* C38: the 'docs' entry after its last id has been unregistered           *)
(***************************************************************************)
\* C38: processing unregister(id, true) leaves the 'docs' entry in the
\* registry, with an empty list when id was the last one, so the registry is
\* not empty; every steady-state round that starts while the entry is there
\* starts a doc-id lookup for the ids of the entry, also when there are none.
C38_EmptyDocsEntryRemains ==
  [][\A inst \in Insts :
       /\ (Unregisters(inst) /\ Unregistered(inst).isDoc /\ "docs" \in DOMAIN queries[inst]) =>
            /\ "docs" \in DOMAIN queries'[inst]
            /\ Cardinality(DOMAIN queries'[inst]) # 0
       /\ (RoundStarts(inst) /\ "docs" \in DOMAIN queries[inst]) =>
            \E j \in Started(inst) :
              j.op = "runQuery" /\ j.key = "docs" /\ j.query = queries[inst]["docs"]]_vars

\* the only registered doc id was unregistered and nothing else is
\* registered; a later round has started a lookup for no id
C38_Witness ==
  /\ DOMAIN queries[Main] = {"docs"}
  /\ queries[Main]["docs"] = Arr(<<>>)
  /\ GenOf(generation[Main], "a").unreg > 0
  /\ rounds[Main].n > 0
  /\ \E j \in jobs[Main] : j.op = "runQuery" /\ j.key = "docs" /\ j.query = Arr(<<>>)

(***************************************************************************)
(* C39: the same doc id registered several times                           *)
(***************************************************************************)
\* how many times the 'docs' entry of inst holds id
Occurrences(inst, id) ==
  IF "docs" \in DOMAIN queries[inst]
  THEN Cardinality({x \in DOMAIN queries[inst]["docs"].a : queries[inst]["docs"].a[x] = id})
  ELSE 0

\* C39: the 'docs' entry holds a doc id once per register(id) processed
\* since the last unregister(id, true): m registrations store it m times,
\* and one unregister removes every occurrence, whatever m was.
C39_NotReferenceCounted ==
  \A inst \in Insts : \A id \in DocIds :
    Occurrences(inst, id) =
      GenOf(generation[inst], id).reg - GenOf(generation[inst], id).unreg

\* three calls were made for the id: it was registered twice, and the one
\* unregister that followed removed both occurrences
C39_Witness ==
  /\ posts = 3
  /\ GenOf(generation[Main], "a").reg = 2
  /\ GenOf(generation[Main], "a").unreg = 2
  /\ "docs" \in DOMAIN queries[Main]
  /\ Occurrences(Main, "a") = 0

(***************************************************************************)
(* C40: the limit of a structured query                                    *)
(***************************************************************************)
\* the documents of the prefix range, in id order
InPrefixRange(db, q) ==
  LET ids == SelectSeq(IdOrder, LAMBDA id : Exists(db, id) /\ HasPrefix(id, q.id))
  IN [x \in DOMAIN ids |-> Doc(ids[x], db[ids[x]].rev, db[ids[x]].n)]

\* the first n elements of a sequence
FirstOf(seq, n) == SubSeq(seq, 1, IF n < Len(seq) THEN n ELSE Len(seq))

\* C40: the answer to a structured query with a limit is the filter, and
\* then the sort, applied to the first `limit` documents of the prefix range
\* in id order; it holds at most `limit` documents.
C40_LimitBoundsRowsScanned ==
  \A p \in QueryCalls :
    LET q == CalledQuery(p)
    IN (p \in DOMAIN answered /\ answered[p].kind = "res"
          /\ q.limit # undefined /\ q.start = undefined) =>
         LET scanned == FirstOf(InPrefixRange(answered[p].db, q), q.limit.n)
             kept == SelectSeq(scanned, LAMBDA doc : Keeps(doc, q.filter))
         IN /\ answered[p].payload =
                 IF q.sort = undefined THEN Arr(kept) ELSE sortBy(kept, q.sort.s)
            /\ Len(answered[p].payload.a) <= q.limit.n

\* a query with limit 1 was answered with no document, and the caller got
\* that answer, while the second document of the range matched its filter
C40_Witness ==
  \E p \in QueryCalls :
    LET q == CalledQuery(p)
    IN /\ p \in DOMAIN answered
       /\ answered[p].kind = "res"
       /\ q.limit = Num(1)
       /\ answered[p].payload = Arr(<<>>)
       /\ Len(InPrefixRange(answered[p].db, q)) = 2
       /\ Keeps(InPrefixRange(answered[p].db, q)[2], q.filter)
       /\ promise[p].state = "fulfilled"
       /\ promise[p].value = Arr(<<>>)

====
